---- MODULE Spec2Model ----
(***************************************************************************)
(* A model of the SPDY session core of thor (thor/spdy/common.py) and of   *)
(* the client session and exchange built on it (thor/spdy/client.py).      *)
(*                                                                         *)
(* One session is modelled.  Its role (client or server) is chosen at       *)
(* construction; it is constructed with an idle timeout and, for a client, *)
(* a read timeout (a session without one behaves as one whose timer never  *)
(* fires).  Every action is one entry point of the session: a public       *)
(* method, a transport callback, a timer callback or the handling of one   *)
(* received frame.  The single-threaded event loop runs each of them to    *)
(* completion, so each is one step.                                        *)
(*                                                                         *)
(* Reading of the source.  The source spells several names in a way that   *)
(* does not resolve; each is read as the identifier it stands for:         *)
(*   self._close(status)           -> self.close(status)                   *)
(*   self._close_exchg(e, None)    -> self._close_exchange(e, None)        *)
(*   DONE                          -> ExchangeStates.DONE                  *)
(*   SynStreamFrame                -> SynSteamFrame (the class defined)    *)
(*   seld                          -> self                                 *)
(*   if !self._valid_remote_...    -> if not self._valid_remote_...        *)
(*   error.ProtocolError, error.RstStreamError -> error classes of these   *)
(*                                    names (error.py defines neither)     *)
(*   def _send_ping(ping_timer)    -> def _send_ping(self, ping_timer)     *)
(*   def _notify_ping(ping_id, ..) -> def _notify_ping(self, ping_id, ..)  *)
(*   frame._ping_id                -> frame.ping_id                        *)
(*   WAITING (frames.py)           -> InputStates.WAITING                  *)
(*   Flags.NONE, Flags.FIN         -> FLAG_NONE, FLAG_FIN                  *)
(*   unpack_from("!I", d) & MASK   -> unpack_from("!I", d)[0] & MASK       *)
(*   self._handle_error(e, status, stream_id, fatal) in frames.py ->       *)
(*                                    SpdySession._handle_error(e, status, *)
(*                                    stream_id), to which it is bound     *)
(*   collapse_dups, expand_dups    -> the functions of common.py           *)
(* The expressions that build the text of an error message are taken to    *)
(* evaluate; the text is not modelled.                                     *)
(* The per-type dispatch of a received frame to the handlers a session     *)
(* registers in frame_handlers is not part of the source files; a frame of *)
(* type T is taken to run SpdySession._handle_frame and then the handler   *)
(* registered for T.  A server-role SpdySession has no frame handlers in   *)
(* the source; its SYN_STREAM handler and its push operation are modelled  *)
(* from the design description and are marked as such where defined.       *)
(* _queue_frame and _output are abstract in common.py; a session of either *)
(* role is taken to queue and write frames as SpdyClientSession does.      *)
(*                                                                         *)
(* The output path of SpdyServerConnection (thor/spdy/server.py), with its *)
(* priority write queues, its write callback and its pause handling, is    *)
(* modelled with the output path of the client session in a specification  *)
(* of its own, SchedSpec, which records what passes through the header     *)
(* compressor and what is written to the transport.  The pings of a        *)
(* session (PingTimer, _send_ping, _notify_ping and the PING branch of     *)
(* _handle_frame) are modelled in the specification PingSpec.  Time passes  *)
(* in the specification IdleSpec only, in which the idle timer expires     *)
(* when it has been pending for a whole idle period.                       *)
(*                                                                         *)
(* The frame codec (thor/spdy/frames.py: the serialization of each frame   *)
(* type and the parser _handle_input with its validity tests) is modelled  *)
(* in the specification CodecSpec, in which a peer serializes frames and   *)
(* malformed messages with its header compressor and the session parses    *)
(* the bytes in chunks of any size.  The zlib streams are not part of the  *)
(* source; a compressor is modelled from the design description as a       *)
(* stateful coding whose output depends on everything it coded before.     *)
(* The end of the stream id space is modelled in the specification IdSpec, *)
(* a client session whose id counter starts near MAX_STREAM_ID.            *)
(* FairSchedSpec is SchedSpec with the scheduled write callback run by     *)
(* the event loop (weak fairness).                                         *)
(***************************************************************************)
EXTENDS Integers, Sequences, FiniteSets, TLC

(* ---------------- bounds of the model ---------------- *)

\* stream ids that are opened locally or accepted from the peer: 1..MaxStreamId
MaxStreamId == 3
\* frames held in _output_buffer while the transport is not connected
MaxOutputBuffer == 1
\* frames queued for output over the life of a connection (SchedSpec)
MaxFrames == 3
\* priorities of the frames queued: Priority_MAX .. MaxPriority (SchedSpec)
MaxPriority == 1
\* ping ids sent or received: 0 .. MaxPingId + 1 (PingSpec)
MaxPingId == 6
\* PingTimer objects of the application (PingSpec)
MaxTimers == 3
\* the idle timeout, in ticks of the clock (IdleSpec)
IdlePeriod == 2
\* frames and malformed messages the peer writes (CodecSpec)
MaxCodecFrames == 2
\* local stream ids below and counter steps above MAX_STREAM_ID (IdSpec)
MaxIdSteps == 3

(* ---------------- program constants ---------------- *)

\* common.py:479  MAX_STREAM_ID = 1 << 31 - 1  (Python: 1 << (31 - 1))
MAX_STREAM_ID == 1073741824

\* common.py:478  STREAM_MASK = 0x7fffffff
STREAM_MASK == 2147483647

\* StatusCodes (common.py:439-450)
PROTOCOL_ERROR == 1
INVALID_STREAM == 2
REFUSED_STREAM == 3
CANCEL == 5
STREAM_IN_USE == 8
STREAM_ALREADY_CLOSED == 9

\* GoawayReasons (common.py:452-455)
GOAWAY_OK == 0
GOAWAY_PROTOCOL_ERROR == 1

\* Flags (common.py:433-437)
FLAG_NONE == 0
FLAG_FIN == 1
FLAG_UNIDIRECTIONAL == 2

\* Priority (common.py:472-476): MAX is served first
Priority_MIN == 7
Priority_MAX == 0

\* Python's None where an integer is expected (status, reason, stream id)
None == -1
\* the target of an event emitted on the session itself
SESSION == -2
\* the targets of the events emitted on PingTimer objects lie below TIMER
TIMER == -3

\* GoawayReasons.INTERNAL_ERROR (common.py:455)
GOAWAY_INTERNAL_ERROR == 2

\* FrameTypes (frames.py:272-282)
FrameTypes_DATA == 0
FrameTypes_SYN_STREAM == 1
FrameTypes_SYN_REPLY == 2
FrameTypes_RST_STREAM == 3
FrameTypes_SETTINGS == 4
FrameTypes_PING == 6
FrameTypes_GOAWAY == 7
FrameTypes_HEADERS == 8
FrameTypes_WINDOW_UPDATE == 9
FrameTypes_CREDENTIAL == 16

\* frames.py:353  SPDY_VERSION = 3
SPDY_VERSION == 3

\* StatusCodes.UNSUPPORTED_VERSION, FRAME_TOO_LARGE (frames.py:316, 323)
UNSUPPORTED_VERSION == 4
FRAME_TOO_LARGE == 11

\* frames.py:628  self._max_control_frame_size = 8192
max_control_frame_size == 8192

(* ---------------- state ---------------- *)

VARIABLES
    is_client,                   \* SpdySession.__init__(is_client, ...)
    idle_timeout,                \* self._idle_timeout is set (truthy)
    read_timeout,                \* self._read_timeout is set (truthy)
    tcp_conn,                    \* "unbound" (None before _bind), "connected", "closed" (None after close)
    registered,                  \* the session is in client._sessions
    exchanges,                   \* self.exchanges: stream id -> exchange
    highest_created_stream_id,   \* self._highest_created_stream_id
    highest_accepted_stream_id,  \* self._highest_accepted_stream_id
    sent_goaway,                 \* self._sent_goaway
    received_goaway,             \* self._received_goaway
    idle_timeout_ev,             \* self._idle_timeout_ev: "None", "pending", "fired"
    output_buffer,               \* self._output_buffer: frames not yet written
    write_queue,                 \* self._write_queue: priority -> frames queued
    write_pending,               \* self._write_pending: a write callback is scheduled
    output_paused,               \* self._output_paused
    tcp_paused,                  \* the transport's last 'pause' signal
    frame_count,                 \* frames handed to _queue_frame so far
    wire,                        \* frames written to the transport, in order
    compressed,                  \* frames whose header block passed through _compress, in order
    pings,                       \* self._pings: ping id -> PingTimer
    highest_ping_id,             \* self._highest_ping_id
    ping_timers,                 \* the PingTimer objects: _ping_id, _is_active, _ping_timeout_ev
    idle_age,                    \* time since self._idle_timeout_ev was scheduled
    quiet,                       \* time since a frame was last received or queued, up to IdlePeriod
    peer,                        \* the sending side: its compressor, the frames it serialized, its writes
    pending,                     \* bytes written by the peer and not yet delivered
    delivered,                   \* bytes the transport has delivered, in order
    parser                       \* the SpdyMessageHandler fields of the receiving session

vars == <<is_client, idle_timeout, read_timeout, tcp_conn, registered, exchanges,
          highest_created_stream_id, highest_accepted_stream_id, sent_goaway,
          received_goaway, idle_timeout_ev, output_buffer, write_queue,
          write_pending, output_paused, tcp_paused, frame_count, wire, compressed,
          pings, highest_ping_id, ping_timers, idle_age, quiet,
          peer, pending, delivered, parser>>

config == <<is_client, idle_timeout, read_timeout>>

\* the output path of SchedSpec
sched == <<write_queue, write_pending, output_paused, tcp_paused, frame_count,
           wire, compressed>>

\* the pings of PingSpec
ping == <<pings, highest_ping_id, ping_timers>>

\* the frame codec of CodecSpec
codec == <<peer, pending, delivered, parser>>

\* the fields of the session that Cur threads through its procedures
session_fields == <<tcp_conn, registered, exchanges, highest_created_stream_id,
                    highest_accepted_stream_id, sent_goaway, received_goaway,
                    idle_timeout_ev, output_buffer, idle_age>>

\* Priority.range (common.py:475)
PriorityRange == Priority_MAX .. Priority_MIN

ExchangeStates == {"WAITING", "STARTED", "DONE"}

\* SpdyExchange.is_active (common.py:763-766)
is_active_exchange(e) == e.req_state # "DONE" \/ e.res_state # "DONE"

\* SpdySession.is_active (common.py:1058-1063): tcp_conn is not None
is_active(S) == S.tcp_conn = "connected"

Frame(type, stream_id, code) == [type |-> type, stream_id |-> stream_id, code |-> code]

\* The mutable part of the session, threaded through the procedures below,
\* with the events emitted and the frames queued by the entry point that runs.
\* `log` holds, in the order they happen, the events emitted ("event"), the
\* frames queued ("frame") and the exchanges _close_exchange forced to DONE
\* ("closed").
Cur == [tcp_conn |-> tcp_conn, registered |-> registered, exchanges |-> exchanges,
        highest_created_stream_id |-> highest_created_stream_id,
        highest_accepted_stream_id |-> highest_accepted_stream_id,
        sent_goaway |-> sent_goaway, received_goaway |-> received_goaway,
        idle_timeout_ev |-> idle_timeout_ev, output_buffer |-> output_buffer,
        idle_age |-> idle_age, events |-> <<>>, frames |-> <<>>, log |-> <<>>]

\* The fields of the session after an entry point has run to completion.
CommitSession(S) ==
    /\ tcp_conn' = S.tcp_conn
    /\ registered' = S.registered
    /\ exchanges' = S.exchanges
    /\ highest_created_stream_id' = S.highest_created_stream_id
    /\ highest_accepted_stream_id' = S.highest_accepted_stream_id
    /\ sent_goaway' = S.sent_goaway
    /\ received_goaway' = S.received_goaway
    /\ idle_timeout_ev' = S.idle_timeout_ev
    /\ output_buffer' = S.output_buffer
    /\ idle_age' = S.idle_age
    /\ UNCHANGED <<config, sched, ping, codec>>

\* The state after an entry point has run to completion.
Commit(S) == CommitSession(S) /\ UNCHANGED quiet

\* EventEmitter.emit(name, ...) on the session (target SESSION) or on an exchange
emit(S, target, name, detail) ==
    [S EXCEPT !.events = Append(@, <<target, name, detail>>),
              !.log = Append(@, <<"event", target, name>>)]

(* ---------------- timers ---------------- *)

\* SpdySession._clear_idle_timeout (common.py:1248-1254)
clear_idle_timeout(S) ==
    IF S.idle_timeout_ev # "None"
    THEN [S EXCEPT !.idle_timeout_ev = "None", !.idle_age = 0]
    ELSE S

\* SpdySession._set_idle_timeout (common.py:1236-1246)
set_idle_timeout(S) ==
    IF idle_timeout /\ S.idle_timeout_ev = "None"
    THEN [S EXCEPT !.idle_timeout_ev = "pending", !.idle_age = 0]
    ELSE S

\* SpdyClientSession._set_read_timeout (client.py:292-302)
set_read_timeout(S, id) ==
    IF read_timeout /\ ~S.exchanges[id].read_timeout_ev
    THEN [S EXCEPT !.exchanges[id].read_timeout_ev = TRUE]
    ELSE S

\* SpdyClientSession._clear_read_timeout (client.py:304-310)
clear_read_timeout(S, id) ==
    IF S.exchanges[id].read_timeout_ev
    THEN [S EXCEPT !.exchanges[id].read_timeout_ev = FALSE]
    ELSE S

(* ---------------- output ---------------- *)

\* SpdyClientSession._output (client.py:268-272)
output(S, chunk) ==
    LET buffered == [S EXCEPT !.output_buffer = Append(@, chunk)]
    IN  IF buffered.tcp_conn = "connected"
        THEN [buffered EXCEPT !.output_buffer = <<>>]
        ELSE buffered

\* SpdyClientSession._queue_frame (client.py:263-266)
queue_frame(S, frame) ==
    LET T == set_idle_timeout(clear_idle_timeout(S))
    IN  output([T EXCEPT !.frames = Append(@, frame),
                         !.log = Append(@, <<"frame", frame.stream_id, frame.type>>)],
               frame)

(* ---------------- closing exchanges and the session ---------------- *)

\* SpdyClientSession._close_exchange (client.py:288-290), which clears the read
\* timeout and runs SpdySession._close_exchange (common.py:1169-1179)
close_exchange(S, id, status) ==
    LET T == clear_read_timeout(S, id)
        U == [T EXCEPT !.exchanges[id].req_state = "DONE",
                        !.exchanges[id].res_state = "DONE",
                        !.log = Append(@, <<"closed", id, "">>)]
    IN  IF status # None
        THEN queue_frame(U, Frame("RST_STREAM", id, status))
        ELSE U

\* one turn of the loop of _close_active_exchanges (common.py:1186-1189)
close_active_exchange(S, id, err) ==
    IF is_active_exchange(S.exchanges[id])
    THEN LET T == close_exchange(S, id, None)
         IN  IF err # "None" THEN emit(T, id, "error", err) ELSE T
    ELSE S

Lowest(ids) == CHOOSE i \in ids : \A j \in ids : i <= j

RECURSIVE close_exchanges_in(_, _, _)
close_exchanges_in(S, ids, err) ==
    IF ids = {} THEN S
    ELSE close_exchanges_in(close_active_exchange(S, Lowest(ids), err),
                            ids \ {Lowest(ids)}, err)

\* SpdySession._close_active_exchanges (common.py:1181-1189)
close_active_exchanges(S, err) == close_exchanges_in(S, DOMAIN S.exchanges, err)

\* SpdySession.goaway (common.py:1078-1087)
goaway(S, reason) ==
    LET T == [S EXCEPT !.sent_goaway = TRUE]
    IN  IF reason # None
        THEN queue_frame(T, Frame("GOAWAY",
                 IF T.highest_accepted_stream_id > 0 THEN T.highest_accepted_stream_id ELSE 0,
                 reason))
        ELSE T

\* close() without the test of is_active
session_close_NoActiveCheck(S, reason) ==
    LET G == [S EXCEPT !.sent_goaway = TRUE]
        T == IF reason # None
             THEN queue_frame(G, Frame("GOAWAY",
                      IF G.highest_accepted_stream_id > 0
                      THEN G.highest_accepted_stream_id ELSE 0,
                      reason))
             ELSE G
        U == clear_idle_timeout(T)
        V == close_active_exchanges(U, "ConnectionClosedError")
        W == [V EXCEPT !.tcp_conn = "closed"]
    IN  emit(W, SESSION, "close", "")

\* SpdySession.close (common.py:1089-1106)
session_close(S, reason) ==
    IF ~is_active(S) THEN S
    ELSE LET G == [S EXCEPT !.sent_goaway = TRUE]
             T == IF reason # None
                  THEN queue_frame(G, Frame("GOAWAY",
                           IF G.highest_accepted_stream_id > 0
                           THEN G.highest_accepted_stream_id ELSE 0,
                           reason))
                  ELSE G
             U == clear_idle_timeout(T)
             V == close_active_exchanges(U, "ConnectionClosedError")
             W == [V EXCEPT !.tcp_conn = "closed"]
         IN  emit(W, SESSION, "close", "")

\* SpdyClientSession.close (client.py:148-150) for a client session, which also
\* removes the session from client._sessions (client.py:525-533);
\* SpdySession.close for a server session
close(S, reason) ==
    IF is_client
    THEN [session_close(S, reason) EXCEPT !.registered = FALSE]
    ELSE session_close(S, reason)

(* ---------------- error routing ---------------- *)

\* _handle_error leaving the exchanges of a session error to close()
handle_error_NoCloseActive(S, err, status, stream_id) ==
    IF stream_id = None
    THEN LET T == IF err # "None" THEN emit(S, SESSION, "error", err) ELSE S
         IN  close(T, status)
    ELSE IF stream_id \in DOMAIN S.exchanges
         THEN LET T == IF err # "None" THEN emit(S, stream_id, "error", err) ELSE S
              IN  close_exchange(T, stream_id, status)
         ELSE S

\* _handle_error closing the exchange of a stream error without its status
handle_error_StatusDropped(S, err, status, stream_id) ==
    IF stream_id = None
    THEN LET T == IF err # "None" THEN emit(S, SESSION, "error", err) ELSE S
             U == close_active_exchanges(T, err)
         IN  close(U, status)
    ELSE IF stream_id \in DOMAIN S.exchanges
         THEN LET T == IF err # "None" THEN emit(S, stream_id, "error", err) ELSE S
              IN  close_exchange(T, stream_id, None)
         ELSE S

\* SpdySession._handle_error (common.py:1149-1167)
handle_error(S, err, status, stream_id) ==
    IF stream_id = None
    THEN LET T == IF err # "None" THEN emit(S, SESSION, "error", err) ELSE S
             U == close_active_exchanges(T, err)
         IN  close(U, status)
    ELSE IF stream_id \in DOMAIN S.exchanges
         THEN LET T == IF err # "None" THEN emit(S, stream_id, "error", err) ELSE S
              IN  close_exchange(T, stream_id, status)
         ELSE S

(* ---------------- stream ids ---------------- *)

\* _next_created_stream_id stepping by one
next_created_stream_id_PlusOne(S) ==
    LET T == [S EXCEPT !.highest_created_stream_id = @ + 1]
    IN  [S |-> T,
         id |-> IF T.highest_created_stream_id > MAX_STREAM_ID
                THEN None ELSE T.highest_created_stream_id]

\* SpdySession._next_created_stream_id (common.py:1258-1262):
\* the id, or None with the counter already advanced when ValueError is raised
next_created_stream_id(S) ==
    LET T == [S EXCEPT !.highest_created_stream_id = @ + 2]
    IN  [S |-> T,
         id |-> IF T.highest_created_stream_id > MAX_STREAM_ID
                THEN None ELSE T.highest_created_stream_id]

\* SpdySession._valid_server_stream_id (common.py:1264-1273)
valid_server_stream_id(S, stream_id) ==
    IF stream_id % 2 = 1
    THEN [ok |-> FALSE, S |-> handle_error(S, "StreamIdError", GOAWAY_PROTOCOL_ERROR, None)]
    ELSE [ok |-> TRUE, S |-> S]

\* SpdySession._valid_client_stream_id (common.py:1275-1284)
valid_client_stream_id(S, stream_id) ==
    IF stream_id % 2 = 0
    THEN [ok |-> FALSE, S |-> handle_error(S, "StreamIdError", GOAWAY_PROTOCOL_ERROR, None)]
    ELSE [ok |-> TRUE, S |-> S]

\* the parity checks bound to the wrong roles
valid_remote_stream_id_Swapped(S, stream_id) ==
    IF is_client THEN valid_client_stream_id(S, stream_id)
    ELSE valid_server_stream_id(S, stream_id)

\* self._valid_remote_stream_id as bound in SpdySession.__init__ (common.py:1040, 1046)
valid_remote_stream_id(S, stream_id) ==
    IF is_client THEN valid_server_stream_id(S, stream_id)
    ELSE valid_client_stream_id(S, stream_id)

\* _valid_new_stream_id reporting a lower id as an error of that stream
valid_new_stream_id_LowerStreamScoped(S, stream_id) ==
    IF stream_id = 0
    THEN [ok |-> FALSE, S |-> handle_error(S, "StreamIdError", GOAWAY_PROTOCOL_ERROR, None)]
    ELSE IF stream_id < S.highest_accepted_stream_id
    THEN [ok |-> FALSE, S |-> handle_error(S, "StreamIdError", PROTOCOL_ERROR, stream_id)]
    ELSE IF stream_id = S.highest_accepted_stream_id
    THEN [ok |-> FALSE, S |-> handle_error(S, "StreamIdError", PROTOCOL_ERROR, stream_id)]
    ELSE LET r == valid_remote_stream_id(S, stream_id)
         IN  IF ~r.ok THEN r
             ELSE [ok |-> TRUE, S |-> S]

\* _valid_new_stream_id reporting a duplicate id as an error of the session
valid_new_stream_id_DuplicateSessionScoped(S, stream_id) ==
    IF stream_id = 0
    THEN [ok |-> FALSE, S |-> handle_error(S, "StreamIdError", GOAWAY_PROTOCOL_ERROR, None)]
    ELSE IF stream_id <= S.highest_accepted_stream_id
    THEN [ok |-> FALSE, S |-> handle_error(S, "StreamIdError", GOAWAY_PROTOCOL_ERROR, None)]
    ELSE LET r == valid_remote_stream_id(S, stream_id)
         IN  IF ~r.ok THEN r
             ELSE [ok |-> TRUE, S |-> S]

\* SpdySession._valid_new_stream_id (common.py:1286-1325)
valid_new_stream_id(S, stream_id) ==
    IF stream_id = 0
    THEN [ok |-> FALSE, S |-> handle_error(S, "StreamIdError", GOAWAY_PROTOCOL_ERROR, None)]
    ELSE IF stream_id < S.highest_accepted_stream_id
    THEN [ok |-> FALSE, S |-> handle_error(S, "StreamIdError", GOAWAY_PROTOCOL_ERROR, None)]
    ELSE IF stream_id = S.highest_accepted_stream_id
    THEN [ok |-> FALSE, S |-> handle_error(S, "StreamIdError", PROTOCOL_ERROR, stream_id)]
    ELSE LET r == valid_remote_stream_id(S, stream_id)
         IN  IF ~r.ok THEN r
             ELSE [ok |-> TRUE, S |-> S]

\* _exchange_or_die reporting the failed lookup without resetting the stream
exchange_or_die_Silent(S, stream_id) ==
    IF stream_id \in DOMAIN S.exchanges THEN S
    ELSE emit(S, SESSION, "error", "StreamIdError")

\* SpdySession._exchange_or_die (common.py:1327-1344): the session after a
\* lookup that failed
exchange_or_die(S, stream_id) ==
    IF stream_id \in DOMAIN S.exchanges THEN S
    ELSE queue_frame(emit(S, SESSION, "error", "StreamIdError"),
                     Frame("RST_STREAM", stream_id, INVALID_STREAM))

\* _handle_frame without the restart of the idle timeout
handle_frame_NoIdleRestart(S, type) ==
    emit(S, SESSION, "frame", type)

\* SpdySession._handle_frame (common.py:1362-1365): the part run for every frame
handle_frame(S, type) ==
    set_idle_timeout(clear_idle_timeout(emit(S, SESSION, "frame", type)))


(* ---------------- exchanges ---------------- *)

\* SpdyExchange.__init__ (common.py:741-750) with the fields an operation sets
Exchange(req_state, res_state, pushed, stream_assoc_id) ==
    [req_state |-> req_state, res_state |-> res_state, pushed |-> pushed,
     stream_assoc_id |-> stream_assoc_id, read_timeout_ev |-> FALSE]

\* self.exchanges[id] = exchange
register(S, id, e) ==
    [S EXCEPT !.exchanges = [i \in DOMAIN @ \cup {id} |-> IF i = id THEN e ELSE @[i]]]

\* _init_pushed_exchg leaving the request side of the pushed exchange WAITING
init_pushed_exchg_ReqWaiting(S, stream_id, stream_assoc_id) ==
    LET T == [S EXCEPT !.highest_accepted_stream_id = stream_id]
    IN  register(T, stream_id, Exchange("WAITING", "WAITING", TRUE, stream_assoc_id))

\* SpdyClientSession._init_pushed_exchg (client.py:154-165)
init_pushed_exchg(S, stream_id, stream_assoc_id) ==
    LET T == [S EXCEPT !.highest_accepted_stream_id = stream_id]
    IN  register(T, stream_id, Exchange("DONE", "WAITING", TRUE, stream_assoc_id))

\* _ensure_can_init without the test of _received_goaway
ensure_can_init_NoGoawayCheck(S, id) ==
    IF id # None /\ S.exchanges[id].pushed THEN "ExchangeStateError: pushed"
    ELSE IF id # None /\ S.exchanges[id].req_state # "WAITING"
    THEN "ExchangeStateError: sent"
    ELSE "None"

\* SpdyClientSession._ensure_can_init (client.py:167-180) for an exchange of the
\* table (id) or a fresh exchange (None): the error it reports, or "None"
ensure_can_init(S, id) ==
    IF id # None /\ S.exchanges[id].pushed THEN "ExchangeStateError: pushed"
    ELSE IF S.received_goaway THEN "ExchangeStateError: goaway"
    ELSE IF id # None /\ S.exchanges[id].req_state # "WAITING"
    THEN "ExchangeStateError: sent"
    ELSE "None"

\* SpdyClientSession._ensure_can_send (client.py:182-195)
ensure_can_send(S, id) ==
    IF S.exchanges[id].pushed THEN "ExchangeStateError: pushed"
    ELSE IF S.exchanges[id].req_state = "WAITING" THEN "ExchangeStateError: not sent"
    ELSE IF S.exchanges[id].req_state = "DONE" THEN "ExchangeStateError: done"
    ELSE "None"

\* SpdyClientSession._req_start (client.py:197-229).  An error of
\* _ensure_can_init is emitted on the exchange; a fresh exchange has no stream
\* id yet, its events are recorded under the target None.
req_start(S, id, done) ==
    LET err == ensure_can_init(S, id)
    IN  IF err # "None" THEN emit(S, id, "error", err)
        ELSE LET n == next_created_stream_id(S)
             IN  IF n.id = None THEN n.S
                 ELSE LET e == IF id = None
                               THEN Exchange("WAITING", "WAITING", FALSE, None)
                               ELSE S.exchanges[id]
                          T == register(n.S, n.id, e)
                          U == queue_frame(T, Frame("SYN_STREAM", n.id,
                                   IF done THEN FLAG_FIN ELSE FLAG_NONE))
                      IN  IF done
                          THEN set_read_timeout(
                                   [U EXCEPT !.exchanges[n.id].req_state = "DONE"], n.id)
                          ELSE [U EXCEPT !.exchanges[n.id].req_state = "STARTED"]

\* SpdyClientSession._req_headers (client.py:231-239)
req_headers(S, id) ==
    LET err == ensure_can_send(S, id)
    IN  IF err # "None" THEN emit(S, id, "error", err)
        ELSE queue_frame(S, Frame("HEADERS", id, FLAG_NONE))

\* SpdyClientSession._req_body (client.py:241-248), chunk not None
req_body(S, id) ==
    LET err == ensure_can_send(S, id)
    IN  IF err # "None" THEN emit(S, id, "error", err)
        ELSE queue_frame(S, Frame("DATA", id, FLAG_NONE))

\* SpdyClientSession._req_done (client.py:250-259)
req_done(S, id) ==
    LET err == ensure_can_send(S, id)
    IN  IF err # "None" THEN emit(S, id, "error", err)
        ELSE LET T == queue_frame(S, Frame("DATA", id, FLAG_FIN))
             IN  set_read_timeout([T EXCEPT !.exchanges[id].req_state = "DONE"], id)

\* one turn of the loop of SpdyClientExchange.cancel (client.py:123-126)
cancel_pushed(S, id, parent) ==
    IF S.exchanges[id].pushed /\ S.exchanges[id].stream_assoc_id = parent
    THEN close_exchange(S, id, None)
    ELSE S

RECURSIVE cancel_pushed_in(_, _, _)
cancel_pushed_in(S, ids, parent) ==
    IF ids = {} THEN S
    ELSE cancel_pushed_in(cancel_pushed(S, Lowest(ids), parent),
                          ids \ {Lowest(ids)}, parent)

\* SpdyClientExchange.cancel (client.py:117-126)
cancel(S, id) ==
    cancel_pushed_in(close_exchange(S, id, CANCEL), DOMAIN S.exchanges, id)


\* SpdyClientExchange.request_headers, request_body, request_done and cancel
\* (client.py:98-126) on an exchange of the table (its stream id) or on an
\* exchange that request_start never reached (None): self.session is None
\* there (common.py:743) and the call raises AttributeError before any method
\* of a session runs, recorded as the event 'raise' of the exchange
request_headers(S, x) ==
    IF x = None THEN emit(S, None, "raise", "AttributeError") ELSE req_headers(S, x)

request_body(S, x) ==
    IF x = None THEN emit(S, None, "raise", "AttributeError") ELSE req_body(S, x)

request_done(S, x) ==
    IF x = None THEN emit(S, None, "raise", "AttributeError") ELSE req_done(S, x)

exchange_cancel(S, x) ==
    IF x = None THEN emit(S, None, "raise", "AttributeError") ELSE cancel(S, x)

(* ---------------- client frame handlers ---------------- *)

\* _frame_data delivering the body whatever the response state is
frame_data_NoStateCheck(S, stream_id, flags) ==
    IF stream_id \notin DOMAIN S.exchanges THEN exchange_or_die(S, stream_id)
    ELSE LET T == clear_read_timeout(emit(S, stream_id, "response_body", ""), stream_id)
         IN  IF flags = FLAG_FIN
             THEN emit([T EXCEPT !.exchanges[stream_id].res_state = "DONE"],
                       stream_id, "response_done", "")
             ELSE set_read_timeout(T, stream_id)

\* SpdyClientSession._frame_data (client.py:314-345)
frame_data(S, stream_id, flags) ==
    IF stream_id \notin DOMAIN S.exchanges THEN exchange_or_die(S, stream_id)
    ELSE IF S.exchanges[stream_id].res_state = "DONE"
    THEN handle_error(S, "ProtocolError", STREAM_ALREADY_CLOSED, stream_id)
    ELSE IF S.exchanges[stream_id].res_state = "WAITING"
    THEN handle_error(S, "ProtocolError", PROTOCOL_ERROR, stream_id)
    ELSE LET T == clear_read_timeout(emit(S, stream_id, "response_body", ""), stream_id)
         IN  IF flags = FLAG_FIN
             THEN emit([T EXCEPT !.exchanges[stream_id].res_state = "DONE"],
                       stream_id, "response_done", "")
             ELSE set_read_timeout(T, stream_id)

\* _frame_syn_stream without the test of _sent_goaway
frame_syn_stream_NoGoawayCheck(S, stream_id, stream_assoc_id, flags, hdr_ok) ==
    LET v == valid_new_stream_id(S, stream_id)
    IN  IF ~v.ok THEN v.S
        ELSE IF stream_assoc_id \notin DOMAIN v.S.exchanges
        THEN handle_error(v.S, "ProtocolError", INVALID_STREAM, stream_id)
        ELSE IF v.S.exchanges[stream_assoc_id].res_state = "DONE"
        THEN handle_error(v.S, "ProtocolError", INVALID_STREAM, stream_id)
        ELSE IF ~hdr_ok
        THEN handle_error(v.S, "HeaderError", PROTOCOL_ERROR, stream_id)
        ELSE LET T == init_pushed_exchg(v.S, stream_id, stream_assoc_id)
                 U == emit(emit(T, stream_assoc_id, "pushed_response", ""),
                           stream_id, "response_start", "")
             IN  IF flags = FLAG_FIN
                 THEN emit([U EXCEPT !.exchanges[stream_id].res_state = "DONE"],
                           stream_id, "response_done", "")
                 ELSE IF flags = FLAG_UNIDIRECTIONAL
                 THEN set_read_timeout(U, stream_id)
                 ELSE emit(U, stream_id, "error", "ProtocolError")

\* SpdyClientSession._frame_syn_stream (client.py:347-393); hdr_ok tells that
\* _header_error (common.py:1346-1358) finds each of ':scheme', ':host', ':path' once
frame_syn_stream(S, stream_id, stream_assoc_id, flags, hdr_ok) ==
    IF S.sent_goaway THEN emit(S, SESSION, "error", "ProtocolError")
    ELSE LET v == valid_new_stream_id(S, stream_id)
         IN  IF ~v.ok THEN v.S
             ELSE IF stream_assoc_id \notin DOMAIN v.S.exchanges
             THEN handle_error(v.S, "ProtocolError", INVALID_STREAM, stream_id)
             ELSE IF v.S.exchanges[stream_assoc_id].res_state = "DONE"
             THEN handle_error(v.S, "ProtocolError", INVALID_STREAM, stream_id)
             ELSE IF ~hdr_ok
             THEN handle_error(v.S, "HeaderError", PROTOCOL_ERROR, stream_id)
             ELSE LET T == init_pushed_exchg(v.S, stream_id, stream_assoc_id)
                      U == emit(emit(T, stream_assoc_id, "pushed_response", ""),
                                stream_id, "response_start", "")
                  IN  IF flags = FLAG_FIN
                      THEN emit([U EXCEPT !.exchanges[stream_id].res_state = "DONE"],
                                stream_id, "response_done", "")
                      ELSE IF flags = FLAG_UNIDIRECTIONAL
                      THEN set_read_timeout(U, stream_id)
                      ELSE emit(U, stream_id, "error", "ProtocolError")

\* SpdyClientSession._frame_headers (client.py:395-417)
frame_headers(S, stream_id, flags) ==
    IF stream_id \notin DOMAIN S.exchanges THEN exchange_or_die(S, stream_id)
    ELSE IF S.exchanges[stream_id].res_state = "DONE"
    THEN handle_error(S, "ProtocolError", STREAM_ALREADY_CLOSED, stream_id)
    ELSE IF S.exchanges[stream_id].res_state = "WAITING"
    THEN handle_error(S, "ProtocolError", PROTOCOL_ERROR, stream_id)
    ELSE LET T == clear_read_timeout(emit(S, stream_id, "response_headers", ""), stream_id)
         IN  IF flags = FLAG_FIN
             THEN emit([T EXCEPT !.exchanges[stream_id].res_state = "DONE"],
                       stream_id, "response_done", "")
             ELSE set_read_timeout(T, stream_id)

\* SpdyClientSession._frame_rst_stream (client.py:419-434); status_known tells
\* that StatusCodes.str has the frame's status (else the lookup raises inside
\* the try block, after the exchange was closed)
frame_rst_stream(S, stream_id, status_known) ==
    IF stream_id \notin DOMAIN S.exchanges
    THEN emit(S, SESSION, "error", "ProtocolError")
    ELSE LET T == close_exchange(S, stream_id, None)
         IN  IF status_known THEN emit(T, stream_id, "error", "RstStreamError")
             ELSE emit(T, SESSION, "error", "ProtocolError")

\* _frame_syn_reply without the tests of the response state
frame_syn_reply_NoStateCheck(S, stream_id, flags, hdr_ok) ==
    IF stream_id \notin DOMAIN S.exchanges THEN exchange_or_die(S, stream_id)
    ELSE IF S.exchanges[stream_id].pushed
    THEN handle_error(S, "ProtocolError", PROTOCOL_ERROR, stream_id)
    ELSE IF ~hdr_ok
    THEN handle_error(S, "HeaderError", PROTOCOL_ERROR, stream_id)
    ELSE LET T == clear_read_timeout(emit(S, stream_id, "response_start", ""), stream_id)
         IN  IF flags = FLAG_FIN
             THEN emit([T EXCEPT !.exchanges[stream_id].res_state = "DONE"],
                       stream_id, "response_done", "")
             ELSE set_read_timeout(
                      [T EXCEPT !.exchanges[stream_id].res_state = "STARTED"], stream_id)

\* SpdyClientSession._frame_syn_reply (client.py:436-475); hdr_ok tells that
\* _header_error finds each of ':status', ':version' once
frame_syn_reply(S, stream_id, flags, hdr_ok) ==
    IF stream_id \notin DOMAIN S.exchanges THEN exchange_or_die(S, stream_id)
    ELSE IF S.exchanges[stream_id].pushed
    THEN handle_error(S, "ProtocolError", PROTOCOL_ERROR, stream_id)
    ELSE IF S.exchanges[stream_id].res_state = "DONE"
    THEN handle_error(S, "ProtocolError", STREAM_ALREADY_CLOSED, stream_id)
    ELSE IF S.exchanges[stream_id].res_state = "STARTED"
    THEN handle_error(S, "ProtocolError", STREAM_IN_USE, stream_id)
    ELSE IF ~hdr_ok
    THEN handle_error(S, "HeaderError", PROTOCOL_ERROR, stream_id)
    ELSE LET T == clear_read_timeout(emit(S, stream_id, "response_start", ""), stream_id)
         IN  IF flags = FLAG_FIN
             THEN emit([T EXCEPT !.exchanges[stream_id].res_state = "DONE"],
                       stream_id, "response_done", "")
             ELSE set_read_timeout(
                      [T EXCEPT !.exchanges[stream_id].res_state = "STARTED"], stream_id)

\* SpdySession._handle_frame for a GOAWAY frame (common.py:1375-1377)
frame_goaway(S) ==
    emit([S EXCEPT !.received_goaway = TRUE], SESSION, "goaway", "")

(* ---------------- server role ---------------- *)

\* The SYN_STREAM handler of a server session: while draining no remote stream
\* is accepted; a valid new id is accepted, highest_accepted_stream_id is
\* updated and request_start is delivered (FIN ends the request at once).
server_frame_syn_stream(S, stream_id, flags) ==
    IF S.sent_goaway \/ S.received_goaway THEN emit(S, SESSION, "error", "ProtocolError")
    ELSE LET v == valid_new_stream_id(S, stream_id)
         IN  IF ~v.ok THEN v.S
             ELSE LET T == [v.S EXCEPT !.highest_accepted_stream_id = stream_id]
                      U == register(T, stream_id,
                               Exchange(IF flags = FLAG_FIN THEN "DONE" ELSE "STARTED",
                                        "WAITING", FALSE, None))
                  IN  emit(U, stream_id, "request_start", "")

\* push_response on a server exchange: while draining, or when the associated
\* stream is response-DONE, nothing is opened; else the next local id is taken
\* and the push exchange (req_state DONE, res_state WAITING) is registered.
server_push_response(S, assoc_id) ==
    IF S.sent_goaway \/ S.received_goaway \/ S.exchanges[assoc_id].res_state = "DONE"
    THEN emit(S, assoc_id, "error", "ExchangeStateError")
    ELSE LET n == next_created_stream_id(S)
         IN  IF n.id = None THEN n.S
             ELSE register(n.S, n.id, Exchange("DONE", "WAITING", TRUE, assoc_id))


(* ---------------- the session as a state machine ---------------- *)

StreamIds == 0 .. MaxStreamId

\* the associated stream id of a received SYN_STREAM: an id of the table, or 0
\* for an id that is not in the table (0 is never in it)
AssocIds == DOMAIN exchanges \cup {0}

\* flags and header verdict of a received SYN_STREAM (the flags are not read
\* when the headers are rejected)
SynStreamInputs ==
    {<<FLAG_NONE, TRUE>>, <<FLAG_FIN, TRUE>>, <<FLAG_UNIDIRECTIONAL, TRUE>>,
     <<FLAG_NONE, FALSE>>}

\* the SYN_STREAM frames received: _frame_syn_stream reads the fields after the
\* stream id only once _valid_new_stream_id passed, which needs an id above
\* highest_accepted_stream_id, so a frame with another id is drawn with one
\* value of those fields
SynStreamFrames ==
    {<<id, 0, FLAG_NONE, TRUE>> : id \in StreamIds}
    \cup {<<id, a, in[1], in[2]>> :
              id \in {i \in StreamIds : i > highest_accepted_stream_id},
              a \in AssocIds, in \in SynStreamInputs}

\* a frame can be queued: the transport takes it, or _output_buffer has room
CanQueue == tcp_conn = "connected" \/ Len(output_buffer) < MaxOutputBuffer

\* SpdyMessageHandler.__init__ (frames.py:614-627): the parser of a session,
\* with the state of its decompressor, the frames it has passed to
\* _handle_frame and the calls of _handle_error it has made, each
\* <<err, status, stream_id, fatal>>; `calls` tells the order of the two,
\* each entry the kind of call and its place in `frames` or `errors`
NewParser ==
    [input_buffer |-> <<>>, input_state |-> "WAITING", input_frame_type |-> None,
     input_flags |-> None, input_stream_id |-> None, input_frame_len |-> 0,
     input_frame_version |-> None, decompress |-> 0,
     frames |-> <<>>, errors |-> <<>>, calls |-> <<>>]

\* nothing has been serialized or received: the compressor of the sending
\* side and the parser of the receiving side are new (frames.py:614-627)
CodecIdle ==
    /\ peer = [compress |-> 0, frames |-> <<>>, writes |-> 0]
    /\ pending = <<>>
    /\ delivered = <<>>
    /\ parser = NewParser

\* no time has passed
ClockIdle == idle_age = 0 /\ quiet = 0

\* the application's PingTimer objects
Timers == 1 .. MaxTimers

\* SpdySession.__init__ (common.py:1036-1047): no ping is pending and
\* _highest_ping_id is -1 for a client and 0 for a server; PingTimer.__init__
\* (common.py:992-999) for each timer
PingIdle ==
    /\ pings = <<>>
    /\ highest_ping_id = (IF is_client THEN -1 ELSE 0)
    /\ ping_timers = [t \in Timers |->
                         [ping_id |-> None, is_active |-> FALSE, ping_timeout_ev |-> FALSE]]

\* SpdyServerConnection.__init__ (server.py:205-207): nothing queued, no write
\* callback scheduled, output not paused; nothing compressed or written yet
SchedIdle ==
    /\ write_queue = [p \in PriorityRange |-> <<>>]
    /\ write_pending = FALSE
    /\ output_paused = FALSE
    /\ tcp_paused = FALSE
    /\ frame_count = 0
    /\ wire = <<>>
    /\ compressed = <<>>

\* SpdySession.__init__ (common.py:1026-1047), SpdyClientSession.__init__
\* (client.py:134-144), SpdyClient.session (client.py:509-523), with
\* idle_timeout given and, for a client, read_timeout given
Init ==
    /\ is_client \in BOOLEAN
    /\ idle_timeout = TRUE
    /\ read_timeout = is_client
    /\ tcp_conn = "unbound"
    /\ registered = is_client
    /\ exchanges = <<>>
    /\ highest_created_stream_id = (IF is_client THEN -1 ELSE 0)
    /\ highest_accepted_stream_id = (IF is_client THEN 0 ELSE -1)
    /\ sent_goaway = FALSE
    /\ received_goaway = FALSE
    /\ idle_timeout_ev = "None"
    /\ output_buffer = <<>>
    /\ SchedIdle
    /\ PingIdle
    /\ ClockIdle
    /\ CodecIdle

\* SpdySession._bind (common.py:1110-1124): _output('') writes what
\* _output_buffer holds
bind(S) ==
    LET A == [S EXCEPT !.tcp_conn = "connected"]
        T == set_idle_timeout(clear_idle_timeout(A))
        U == [T EXCEPT !.output_buffer = <<>>]
    IN  emit(U, SESSION, "bound", "")

\* the 'connect' event of the transport
Bind ==
    /\ tcp_conn = "unbound"
    /\ Commit(bind(Cur))

\* SpdyClientExchange.request_start (client.py:67-96) on a fresh exchange
\* (None) or on an exchange of the table
RequestStart(x, done) ==
    /\ is_client /\ registered /\ CanQueue
    /\ ensure_can_init(Cur, x) # "None" \/ highest_created_stream_id + 2 <= MaxStreamId
    /\ Commit(req_start(Cur, x, done))

\* SpdyClientExchange.request_headers (client.py:98-102)
RequestHeaders(x) ==
    /\ is_client /\ CanQueue
    /\ Commit(request_headers(Cur, x))

\* SpdyClientExchange.request_body (client.py:104-108)
RequestBody(x) ==
    /\ is_client /\ CanQueue
    /\ Commit(request_body(Cur, x))

\* SpdyClientExchange.request_done (client.py:110-115)
RequestDone(x) ==
    /\ is_client /\ CanQueue
    /\ Commit(request_done(Cur, x))

\* SpdyClientExchange.cancel (client.py:117-126)
Cancel(x) ==
    /\ is_client /\ CanQueue
    /\ Commit(exchange_cancel(Cur, x))

\* SpdySession.goaway (common.py:1078-1087)
Goaway(reason) ==
    /\ CanQueue
    /\ Commit(goaway(Cur, reason))

\* SpdySession.close / SpdyClientSession.close
Close(reason) ==
    /\ reason \in {None, GOAWAY_OK}
    /\ Commit(close(Cur, reason))

\* SpdySession._handle_closed (common.py:1126-1133)
HandleClosed ==
    /\ tcp_conn = "connected"
    /\ Commit(handle_error(Cur, "ConnectionClosedError", None, None))

\* the callback scheduled by _set_idle_timeout (common.py:1241-1246)
IdleTimeoutFire ==
    /\ idle_timeout_ev = "pending"
    /\ Commit(handle_error([Cur EXCEPT !.idle_timeout_ev = "fired"],
                           "IdleTimeoutError", GOAWAY_OK, None))

\* the callback scheduled by _set_read_timeout (client.py:297-302)
ReadTimeoutFire(id) ==
    /\ exchanges[id].read_timeout_ev
    /\ CanQueue
    /\ Commit(handle_error(Cur, "ReadTimeoutError", CANCEL, id))

\* a DATA frame from the transport
RecvData(stream_id, flags) ==
    /\ is_client /\ tcp_conn = "connected"
    /\ Commit(frame_data(handle_frame(Cur, "DATA"), stream_id, flags))

\* a SYN_STREAM frame from the transport
RecvSynStream(stream_id, stream_assoc_id, flags, hdr_ok) ==
    /\ is_client /\ tcp_conn = "connected"
    /\ Commit(frame_syn_stream(handle_frame(Cur, "SYN_STREAM"), stream_id,
                               stream_assoc_id, flags, hdr_ok))

\* a SYN_REPLY frame from the transport
RecvSynReply(stream_id, flags, hdr_ok) ==
    /\ is_client /\ tcp_conn = "connected"
    /\ Commit(frame_syn_reply(handle_frame(Cur, "SYN_REPLY"), stream_id, flags, hdr_ok))

\* a HEADERS frame from the transport
RecvHeaders(stream_id, flags) ==
    /\ is_client /\ tcp_conn = "connected"
    /\ Commit(frame_headers(handle_frame(Cur, "HEADERS"), stream_id, flags))

\* a RST_STREAM frame from the transport
RecvRstStream(stream_id, status_known) ==
    /\ is_client /\ tcp_conn = "connected"
    /\ Commit(frame_rst_stream(handle_frame(Cur, "RST_STREAM"), stream_id, status_known))

\* a GOAWAY frame from the transport
RecvGoaway ==
    /\ tcp_conn = "connected"
    /\ Commit(frame_goaway(handle_frame(Cur, "GOAWAY")))

\* a SYN_STREAM frame received by a server session
ServerRecvSynStream(stream_id, flags) ==
    /\ ~is_client /\ tcp_conn = "connected"
    /\ Commit(server_frame_syn_stream(handle_frame(Cur, "SYN_STREAM"), stream_id, flags))

\* push_response on an exchange a server session accepted
ServerPushResponse(assoc_id) ==
    /\ ~is_client /\ ~exchanges[assoc_id].pushed
    /\ highest_created_stream_id + 2 <= MaxStreamId
    /\ Commit(server_push_response(Cur, assoc_id))

Next ==
    \/ Bind
    \/ \E x \in DOMAIN exchanges \cup {None}, done \in BOOLEAN : RequestStart(x, done)
    \/ \E x \in DOMAIN exchanges \cup {None} : RequestHeaders(x)
    \/ \E x \in DOMAIN exchanges \cup {None} : RequestBody(x)
    \/ \E x \in DOMAIN exchanges \cup {None} : RequestDone(x)
    \/ \E x \in DOMAIN exchanges \cup {None} : Cancel(x)
    \/ \E reason \in {None, GOAWAY_OK} : Goaway(reason)
    \/ \E reason \in {None, GOAWAY_OK} : Close(reason)
    \/ HandleClosed
    \/ IdleTimeoutFire
    \/ \E id \in DOMAIN exchanges : ReadTimeoutFire(id)
    \/ \E id \in StreamIds, flags \in {FLAG_NONE, FLAG_FIN} : RecvData(id, flags)
    \/ \E f \in SynStreamFrames : RecvSynStream(f[1], f[2], f[3], f[4])
    \/ \E id \in StreamIds, flags \in {FLAG_NONE, FLAG_FIN}, hdr_ok \in BOOLEAN :
          RecvSynReply(id, flags, hdr_ok)
    \/ \E id \in StreamIds, flags \in {FLAG_NONE, FLAG_FIN} : RecvHeaders(id, flags)
    \/ \E id \in StreamIds, status_known \in BOOLEAN : RecvRstStream(id, status_known)
    \/ RecvGoaway
    \/ \E id \in StreamIds, flags \in {FLAG_NONE, FLAG_FIN} : ServerRecvSynStream(id, flags)
    \/ \E id \in DOMAIN exchanges : ServerPushResponse(id)

Spec == Init /\ [][Next]_vars

(* ---------------- the output path of a connection ---------------- *)

\* a frame handed to _queue_frame: the seq-th of the connection, of the type,
\* queued with the priority
OutFrame(seq, priority, type) == [seq |-> seq, priority |-> priority, type |-> type]

\* the frames whose serialize() sends a header block through context._compress
\* (frames.py:442-450, 467-472, 489-494)
HeaderBearing == {"SYN_STREAM", "SYN_REPLY", "HEADERS"}

\* The mutable part of the connection that the output path reads and writes,
\* with the events emitted by the entry point that runs.
CurW == [tcp_conn |-> tcp_conn, exchanges |-> exchanges,
         idle_timeout_ev |-> idle_timeout_ev, output_buffer |-> output_buffer,
         idle_age |-> idle_age,
         write_queue |-> write_queue, write_pending |-> write_pending,
         output_paused |-> output_paused, wire |-> wire, compressed |-> compressed,
         events |-> <<>>]

\* The state after an entry point of the output path has run to completion.
CommitW(W) ==
    /\ tcp_conn' = W.tcp_conn
    /\ exchanges' = W.exchanges
    /\ idle_timeout_ev' = W.idle_timeout_ev
    /\ output_buffer' = W.output_buffer
    /\ write_queue' = W.write_queue
    /\ write_pending' = W.write_pending
    /\ output_paused' = W.output_paused
    /\ wire' = W.wire
    /\ compressed' = W.compressed
    /\ idle_age' = W.idle_age
    /\ UNCHANGED quiet
    /\ UNCHANGED <<config, registered, highest_created_stream_id,
                   highest_accepted_stream_id, sent_goaway, received_goaway, ping, codec>>

\* frame.serialize(context): a header-bearing frame sends its header block
\* through the one compressor of the connection (frames.py:442-450)
serialize(W, frame) ==
    IF frame.type \in HeaderBearing
    THEN [W EXCEPT !.compressed = Append(@, frame)]
    ELSE W

\* SpdyServerConnection._output (server.py:442-444)
server_output(W, chunk) ==
    IF W.tcp_conn = "connected" THEN [W EXCEPT !.wire = Append(@, chunk)] ELSE W

\* SpdyServerConnection._has_write_data (server.py:408-414)
has_write_data(W) ==
    IF W.output_paused THEN FALSE
    ELSE \E p \in PriorityRange : Len(W.write_queue[p]) > 0

\* SpdyServerConnection._schedule_write (server.py:430-433)
schedule_write(W) ==
    IF ~W.write_pending THEN [W EXCEPT !.write_pending = TRUE] ELSE W

\* _write_frame_callback serving the highest-numbered queue first
write_frame_callback_LastQueueFirst(W) ==
    LET A == [W EXCEPT !.write_pending = FALSE]
        ps == {p \in PriorityRange : Len(A.write_queue[p]) > 0}
        B == IF ps = {} THEN A
             ELSE LET p == CHOOSE q \in ps : \A r \in ps : r <= q
                      frame == A.write_queue[p][1]
                      C == [A EXCEPT !.write_queue[p] = SubSeq(@, 2, Len(@))]
                  IN  server_output(serialize(C, frame), frame)
    IN  IF has_write_data(B) THEN schedule_write(B) ELSE B

\* _write_frame_callback scheduling no further tick
write_frame_callback_NoReschedule(W) ==
    LET A == [W EXCEPT !.write_pending = FALSE]
        ps == {p \in PriorityRange : Len(A.write_queue[p]) > 0}
    IN  IF ps = {} THEN A
        ELSE LET p == Lowest(ps)
                 frame == A.write_queue[p][1]
                 C == [A EXCEPT !.write_queue[p] = SubSeq(@, 2, Len(@))]
             IN  server_output(serialize(C, frame), frame)

\* SpdyServerConnection._write_frame_callback (server.py:416-428)
write_frame_callback(W) ==
    LET A == [W EXCEPT !.write_pending = FALSE]
        ps == {p \in PriorityRange : Len(A.write_queue[p]) > 0}
        B == IF ps = {} THEN A
             ELSE LET p == Lowest(ps)
                      frame == A.write_queue[p][1]
                      C == [A EXCEPT !.write_queue[p] = SubSeq(@, 2, Len(@))]
                  IN  server_output(serialize(C, frame), frame)
    IN  IF has_write_data(B) THEN schedule_write(B) ELSE B

\* _queue_frame serializing the frame when it is queued
server_queue_frame_SerializeEarly(W, priority, frame) ==
    LET A == [W EXCEPT !.output_paused = FALSE]
        B == set_idle_timeout(clear_idle_timeout(A))
        C == [serialize(B, frame) EXCEPT !.write_queue[priority] = Append(@, frame)]
    IN  schedule_write(C)

\* SpdyServerConnection._queue_frame (server.py:435-440)
server_queue_frame(W, priority, frame) ==
    LET A == [W EXCEPT !.output_paused = FALSE]
        B == set_idle_timeout(clear_idle_timeout(A))
        C == [B EXCEPT !.write_queue[priority] = Append(@, frame)]
    IN  schedule_write(C)

\* the value of `paused` as the detail of a 'pause' event
PauseDetail(paused) == IF paused THEN "True" ELSE "False"

\* the loop of _handle_pause over the exchanges (server.py:463-465,
\* common.py:1143-1145)
RECURSIVE pause_exchanges_in(_, _, _)
pause_exchanges_in(W, ids, paused) ==
    IF ids = {} THEN W
    ELSE LET i == Lowest(ids)
             A == IF is_active_exchange(W.exchanges[i])
                  THEN emit(W, i, "pause", PauseDetail(paused))
                  ELSE W
         IN  pause_exchanges_in(A, ids \ {i}, paused)

\* SpdyServerConnection._handle_pause (server.py:458-468)
server_handle_pause(W, paused) ==
    LET A == emit(W, SESSION, "pause", PauseDetail(paused))
        B == pause_exchanges_in(A, DOMAIN A.exchanges, paused)
        C == [B EXCEPT !.output_paused = paused]
    IN  IF ~paused THEN schedule_write(C) ELSE C

\* SpdyClientSession._handle_pause (client.py:282-284), which runs
\* SpdySession._handle_pause (common.py:1136-1145) and pauses nothing
client_handle_pause(W, paused) ==
    LET A == emit(W, SESSION, "pause", PauseDetail(paused))
    IN  pause_exchanges_in(A, DOMAIN A.exchanges, paused)

\* SpdyServerConnection.close (server.py:223-239); seq numbers the GOAWAY frame
server_close(W, reason, seq) ==
    IF W.tcp_conn # "connected" THEN W
    ELSE LET A == IF reason # None
                  THEN server_queue_frame(W, Priority_MAX,
                                          OutFrame(seq, Priority_MAX, "GOAWAY"))
                  ELSE W
             B == clear_idle_timeout(A)
             C == close_active_exchanges(B, "ConnectionClosedError")
             D == [C EXCEPT !.tcp_conn = "closed"]
         IN  emit(D, SESSION, "close", "")

\* SpdyClientSession._output (client.py:268-272), recording what is written
client_output(W, chunks) ==
    LET A == [W EXCEPT !.output_buffer = @ \o chunks]
    IN  IF A.tcp_conn = "connected"
        THEN [A EXCEPT !.wire = @ \o A.output_buffer, !.output_buffer = <<>>]
        ELSE A

\* SpdyClientSession._queue_frame (client.py:263-266), recording what is
\* compressed
client_queue_frame(W, frame) ==
    LET A == set_idle_timeout(clear_idle_timeout(W))
    IN  client_output(serialize(A, frame), <<frame>>)

\* SpdySession._bind (common.py:1110-1124) in a client session: _output('')
\* writes what _output_buffer holds
client_bind(W) ==
    LET A == [W EXCEPT !.tcp_conn = "connected"]
        B == set_idle_timeout(clear_idle_timeout(A))
    IN  emit(client_output(B, <<>>), SESSION, "bound", "")

\* the priorities and the types of the frames queued
SchedPriorities == Priority_MAX .. MaxPriority
SchedTypes == {"HEADERS", "DATA"}

\* a connection in the middle of its life: of the streams 1 and 3 the first is
\* open and the second has ended; a server connection is constructed on a
\* connected transport (server.py:196-207), a client session is not bound yet
SchedInit ==
    /\ is_client \in BOOLEAN
    /\ idle_timeout = TRUE
    /\ read_timeout = is_client
    /\ tcp_conn = (IF is_client THEN "unbound" ELSE "connected")
    /\ registered = is_client
    /\ exchanges = [i \in {1, 3} |->
                       IF i = 1 THEN Exchange("DONE", "STARTED", FALSE, None)
                       ELSE Exchange("DONE", "DONE", FALSE, None)]
    /\ highest_created_stream_id = (IF is_client THEN 3 ELSE 0)
    /\ highest_accepted_stream_id = (IF is_client THEN 0 ELSE 3)
    /\ sent_goaway = FALSE
    /\ received_goaway = FALSE
    /\ idle_timeout_ev = "None"
    /\ output_buffer = <<>>
    /\ SchedIdle
    /\ PingIdle
    /\ ClockIdle
    /\ CodecIdle

\* a call of _queue_frame(priority, frame) on a server connection by one of
\* the response methods or error handlers (server.py:302-393)
SchedQueueFrame(priority, type) ==
    /\ ~is_client /\ tcp_conn = "connected" /\ frame_count < MaxFrames
    /\ frame_count' = frame_count + 1
    /\ CommitW(server_queue_frame(CurW, priority,
                                  OutFrame(frame_count + 1, priority, type)))
    /\ UNCHANGED tcp_paused

\* the write callback that _schedule_write handed to the event loop
SchedTick ==
    /\ ~is_client /\ write_pending
    /\ CommitW(write_frame_callback(CurW))
    /\ UNCHANGED <<tcp_paused, frame_count>>

\* the transport's 'pause' event (common.py:1119, server.py:458)
SchedPause(paused) ==
    /\ tcp_conn = "connected" /\ paused # tcp_paused
    /\ tcp_paused' = paused
    /\ CommitW(IF is_client THEN client_handle_pause(CurW, paused)
               ELSE server_handle_pause(CurW, paused))
    /\ UNCHANGED frame_count

\* SpdyServerConnection.close
SchedClose(reason) ==
    /\ ~is_client /\ tcp_conn = "connected"
    /\ frame_count' = IF reason # None THEN frame_count + 1 ELSE frame_count
    /\ CommitW(server_close(CurW, reason, frame_count + 1))
    /\ UNCHANGED tcp_paused

\* a call of _queue_frame on a client session
SchedClientQueueFrame(type) ==
    /\ is_client /\ tcp_conn # "closed" /\ frame_count < MaxFrames
    /\ frame_count' = frame_count + 1
    /\ CommitW(client_queue_frame(CurW, OutFrame(frame_count + 1, Priority_MAX, type)))
    /\ UNCHANGED tcp_paused

\* the 'connect' event of the client's transport
SchedClientBind ==
    /\ is_client /\ tcp_conn = "unbound"
    /\ CommitW(client_bind(CurW))
    /\ UNCHANGED <<tcp_paused, frame_count>>

SchedNext ==
    \/ \E p \in SchedPriorities, type \in SchedTypes : SchedQueueFrame(p, type)
    \/ SchedTick
    \/ \E paused \in BOOLEAN : SchedPause(paused)
    \/ \E reason \in {None, GOAWAY_OK} : SchedClose(reason)
    \/ \E type \in SchedTypes : SchedClientQueueFrame(type)
    \/ SchedClientBind

SchedSpec == SchedInit /\ [][SchedNext]_vars

\* the event loop runs every callback that thor.schedule(0, ...) handed to it
\* (server.py:430-433)
FairSchedSpec == SchedInit /\ [][SchedNext]_vars /\ WF_vars(SchedTick)

(* ---------------- pings ---------------- *)

\* The mutable part of the session with its pings.
CurP == Cur @@ [pings |-> pings, highest_ping_id |-> highest_ping_id,
                ping_timers |-> ping_timers]

\* The state after an entry point that handles pings has run to completion.
CommitP(P) ==
    /\ tcp_conn' = P.tcp_conn
    /\ registered' = P.registered
    /\ exchanges' = P.exchanges
    /\ highest_created_stream_id' = P.highest_created_stream_id
    /\ highest_accepted_stream_id' = P.highest_accepted_stream_id
    /\ sent_goaway' = P.sent_goaway
    /\ received_goaway' = P.received_goaway
    /\ idle_timeout_ev' = P.idle_timeout_ev
    /\ output_buffer' = P.output_buffer
    /\ pings' = P.pings
    /\ highest_ping_id' = P.highest_ping_id
    /\ ping_timers' = P.ping_timers
    /\ idle_age' = P.idle_age
    /\ UNCHANGED <<config, sched, quiet, codec>>

\* the target of the events emitted on PingTimer t
PingTimerTarget(t) == TIMER - t

\* _notify_ping ignoring a ping id that is not pending
notify_ping_UnknownIgnored(P, ping_id, success, cancelled) ==
    IF ping_id = None THEN P
    ELSE IF ping_id \notin DOMAIN P.pings
    THEN P
    ELSE LET t == P.pings[ping_id]
             A == [P EXCEPT !.pings = [i \in DOMAIN @ \ {ping_id} |-> @[i]],
                            !.ping_timers[t].is_active = FALSE,
                            !.ping_timers[t].ping_timeout_ev = FALSE]
         IN  IF ~cancelled
             THEN IF success THEN emit(A, PingTimerTarget(t), "pong", "")
                  ELSE emit(A, PingTimerTarget(t), "timeout", "")
             ELSE A

\* SpdySession._notify_ping (common.py:1208-1232); cancelled is its argument
\* `cancel`
notify_ping(P, ping_id, success, cancelled) ==
    IF ping_id = None THEN P
    ELSE IF ping_id \notin DOMAIN P.pings
    THEN emit(P, SESSION, "error", "PingError")
    ELSE LET t == P.pings[ping_id]
             A == [P EXCEPT !.pings = [i \in DOMAIN @ \ {ping_id} |-> @[i]],
                            !.ping_timers[t].is_active = FALSE,
                            !.ping_timers[t].ping_timeout_ev = FALSE]
         IN  IF ~cancelled
             THEN IF success THEN emit(A, PingTimerTarget(t), "pong", "")
                  ELSE emit(A, PingTimerTarget(t), "timeout", "")
             ELSE A

\* _send_ping without the cancellation of the timer's earlier ping
send_ping_KeepsEarlier(P, t) ==
    LET A == [P EXCEPT !.highest_ping_id = @ + 2]
        B == A
        id == B.highest_ping_id
        C == [B EXCEPT !.ping_timers[t].ping_id = id,
                       !.ping_timers[t].is_active = TRUE,
                       !.pings = [i \in DOMAIN @ \cup {id} |-> IF i = id THEN t ELSE @[i]]]
        D == queue_frame(C, Frame("PING", id, None))
    IN  IF ~D.ping_timers[t].ping_timeout_ev
        THEN [D EXCEPT !.ping_timers[t].ping_timeout_ev = TRUE]
        ELSE D

\* SpdySession._send_ping (common.py:1193-1206), the timer made with a
\* ping_timeout
send_ping(P, t) ==
    LET A == [P EXCEPT !.highest_ping_id = @ + 2]
        B == notify_ping(A, A.ping_timers[t].ping_id, TRUE, TRUE)
        id == B.highest_ping_id
        C == [B EXCEPT !.ping_timers[t].ping_id = id,
                       !.ping_timers[t].is_active = TRUE,
                       !.pings = [i \in DOMAIN @ \cup {id} |-> IF i = id THEN t ELSE @[i]]]
        D == queue_frame(C, Frame("PING", id, None))
    IN  IF ~D.ping_timers[t].ping_timeout_ev
        THEN [D EXCEPT !.ping_timers[t].ping_timeout_ev = TRUE]
        ELSE D

\* the PING branch of _handle_frame with the parity test inverted
frame_ping_ParitySwapped(P, ping_id) ==
    IF (ping_id % 2) = (P.highest_ping_id % 2)
    THEN queue_frame(P, Frame("PING", ping_id, None))
    ELSE notify_ping(P, ping_id, TRUE, FALSE)

\* SpdySession._handle_frame for a PING frame (common.py:1367-1373)
frame_ping(P, ping_id) ==
    IF (ping_id % 2) # (P.highest_ping_id % 2)
    THEN queue_frame(P, Frame("PING", ping_id, None))
    ELSE notify_ping(P, ping_id, TRUE, FALSE)

\* the ids of the PING frames received
PingIds == 0 .. MaxPingId + 1

\* a session that has been bound to its transport (Init, then Bind)
PingInit ==
    /\ is_client \in BOOLEAN
    /\ idle_timeout = TRUE
    /\ read_timeout = is_client
    /\ tcp_conn = "connected"
    /\ registered = is_client
    /\ exchanges = <<>>
    /\ highest_created_stream_id = (IF is_client THEN -1 ELSE 0)
    /\ highest_accepted_stream_id = (IF is_client THEN 0 ELSE -1)
    /\ sent_goaway = FALSE
    /\ received_goaway = FALSE
    /\ idle_timeout_ev = "pending"
    /\ output_buffer = <<>>
    /\ SchedIdle
    /\ PingIdle
    /\ ClockIdle
    /\ CodecIdle

\* PingTimer.ping (common.py:1005-1006)
PingSend(t) ==
    /\ highest_ping_id + 2 <= MaxPingId
    /\ CommitP(send_ping(CurP, t))

\* PingTimer.cancel (common.py:1008-1009)
PingCancel(t) ==
    /\ CommitP(notify_ping(CurP, ping_timers[t].ping_id, TRUE, TRUE))

\* the callback scheduled by _send_ping (common.py:1203-1206)
PingTimeoutFire(t) ==
    /\ ping_timers[t].ping_timeout_ev
    /\ CommitP(notify_ping(CurP, ping_timers[t].ping_id, FALSE, FALSE))

\* a PING frame from the transport
RecvPing(ping_id) ==
    /\ CommitP(frame_ping(handle_frame(CurP, "PING"), ping_id))

PingNext ==
    \/ \E t \in Timers : PingSend(t)
    \/ \E t \in Timers : PingCancel(t)
    \/ \E t \in Timers : PingTimeoutFire(t)
    \/ \E id \in PingIds : RecvPing(id)

PingSpec == PingInit /\ [][PingNext]_vars

(* ---------------- the idle timeout in time ---------------- *)

\* The state after an entry point has run to completion at the present time:
\* `received` tells that it handled a frame from the transport
CommitTimed(S, received) ==
    /\ CommitSession(S)
    /\ quiet' = IF received \/ S.frames # <<>> THEN 0 ELSE quiet

\* the idle timer has been pending for the whole idle period
IdleTimerDue == idle_timeout_ev = "pending" /\ idle_age = IdlePeriod

\* one unit of time passes; the event loop runs a timer that is due before
\* it lets more time pass
Tick ==
    /\ ~IdleTimerDue
    /\ idle_timeout_ev = "pending" \/ quiet < IdlePeriod
    /\ idle_age' = IF idle_timeout_ev = "pending" THEN idle_age + 1 ELSE idle_age
    /\ quiet' = IF quiet < IdlePeriod THEN quiet + 1 ELSE quiet
    /\ UNCHANGED <<config, sched, ping, codec, tcp_conn, registered, exchanges,
                   highest_created_stream_id, highest_accepted_stream_id,
                   sent_goaway, received_goaway, idle_timeout_ev, output_buffer>>

\* the callback scheduled by _set_idle_timeout (common.py:1241-1246), run by
\* the event loop when the idle period has passed
IdleTimerExpires ==
    /\ IdleTimerDue
    /\ CommitTimed(handle_error([Cur EXCEPT !.idle_timeout_ev = "fired"],
                                "IdleTimeoutError", GOAWAY_OK, None), FALSE)

\* the 'connect' event of the transport
TimedBind ==
    /\ tcp_conn = "unbound"
    /\ CommitTimed(bind(Cur), FALSE)

\* SpdyClientExchange.request_start on a fresh exchange
TimedRequestStart(done) ==
    /\ is_client /\ registered /\ CanQueue
    /\ ensure_can_init(Cur, None) # "None" \/ highest_created_stream_id + 2 <= MaxStreamId
    /\ CommitTimed(req_start(Cur, None, done), FALSE)

\* SpdyClientExchange.request_body
TimedRequestBody(id) ==
    /\ is_client /\ CanQueue
    /\ CommitTimed(req_body(Cur, id), FALSE)

\* SpdySession.goaway
TimedGoaway(reason) ==
    /\ CanQueue
    /\ CommitTimed(goaway(Cur, reason), FALSE)

\* a SYN_REPLY frame from the transport
TimedRecvSynReply(stream_id, flags) ==
    /\ is_client /\ tcp_conn = "connected"
    /\ CommitTimed(frame_syn_reply(handle_frame(Cur, "SYN_REPLY"), stream_id, flags, TRUE),
                   TRUE)

\* a DATA frame from the transport
TimedRecvData(stream_id, flags) ==
    /\ is_client /\ tcp_conn = "connected"
    /\ CommitTimed(frame_data(handle_frame(Cur, "DATA"), stream_id, flags), TRUE)

\* a GOAWAY frame from the transport
TimedRecvGoaway ==
    /\ tcp_conn = "connected"
    /\ CommitTimed(frame_goaway(handle_frame(Cur, "GOAWAY")), TRUE)

IdleNext ==
    \/ Tick
    \/ IdleTimerExpires
    \/ TimedBind
    \/ \E done \in BOOLEAN : TimedRequestStart(done)
    \/ \E id \in DOMAIN exchanges : TimedRequestBody(id)
    \/ \E reason \in {None, GOAWAY_OK} : TimedGoaway(reason)
    \/ \E id \in StreamIds, flags \in {FLAG_NONE, FLAG_FIN} : TimedRecvSynReply(id, flags)
    \/ \E id \in StreamIds, flags \in {FLAG_NONE, FLAG_FIN} : TimedRecvData(id, flags)
    \/ TimedRecvGoaway

IdleSpec == Init /\ [][IdleNext]_vars

(* ---------------- the frame codec: frames and their bytes ---------------- *)

\* A byte string is a sequence of integers 0..255.  struct.pack with the
\* formats "!H" and "!I": two and four bytes, big-endian.
pack_H(n) == <<(n \div 256) % 256, n % 256>>
pack_I(n) == <<n \div 16777216, (n \div 65536) % 256, (n \div 256) % 256, n % 256>>

\* struct.pack("!I", STREAM_MASK & n): the highest bit is cleared
pack_I_masked(n) ==
    <<(n \div 16777216) % 128, (n \div 65536) % 256, (n \div 256) % 256, n % 256>>

\* struct.unpack of a big-endian unsigned integer of any length
RECURSIVE unpack(_)
unpack(bytes) ==
    IF bytes = <<>> THEN 0
    ELSE unpack(SubSeq(bytes, 1, Len(bytes) - 1)) * 256 + bytes[Len(bytes)]

\* struct.unpack("!I", ...)[0] & STREAM_MASK
unpack_masked(bytes) == unpack(<<bytes[1] % 128>> \o Tail(bytes))

\* data[i:j] of Python, with i and j counted from 0
Slice(bytes, i, j) ==
    SubSeq(bytes, i + 1, IF j < Len(bytes) THEN j ELSE Len(bytes))

\* Python values of the kinds a field of a frame can hold: an integer, a
\* list (of header or settings tuples), None
PyInt(n) == [kind |-> "int", int |-> n, list |-> <<>>]
PyList(l) == [kind |-> "list", int |-> 0, list |-> l]
PyNone == [kind |-> "None", int |-> 0, list |-> <<>>]

\* DataFrame.__init__ (frames.py:404-407)
DataFrame(flags, stream_id, data) ==
    [type |-> FrameTypes_DATA, flags |-> flags, stream_id |-> stream_id, data |-> data]

\* SynSteamFrame.__init__ (frames.py:424-431), its parameters in the order of
\* the source
SynSteamFrame(flags, stream_id, hdr_tuples, priority, stream_assoc_id, slot) ==
    [type |-> FrameTypes_SYN_STREAM, flags |-> flags, stream_id |-> stream_id,
     hdr_tuples |-> hdr_tuples, priority |-> priority,
     stream_assoc_id |-> stream_assoc_id, slot |-> slot]

\* SynReplyFrame.__init__ (frames.py:456-459)
SynReplyFrame(flags, stream_id, hdr_tuples) ==
    [type |-> FrameTypes_SYN_REPLY, flags |-> flags, stream_id |-> stream_id,
     hdr_tuples |-> hdr_tuples]

\* HeadersFrame.__init__ (frames.py:478-481)
HeadersFrame(flags, stream_id, hdr_tuples) ==
    [type |-> FrameTypes_HEADERS, flags |-> flags, stream_id |-> stream_id,
     hdr_tuples |-> hdr_tuples]

\* RstStreamFrame.__init__ (frames.py:500-503)
RstStreamFrame(stream_id, status) ==
    [type |-> FrameTypes_RST_STREAM, flags |-> FLAG_NONE, stream_id |-> stream_id,
     status |-> status]

\* SettingsFrame.__init__ (frames.py:517-519)
SettingsFrame(flags, settings_tuples) ==
    [type |-> FrameTypes_SETTINGS, flags |-> flags, settings_tuples |-> settings_tuples]

\* PingFrame.__init__ (frames.py:543-545)
PingFrame(ping_id) == [type |-> FrameTypes_PING, flags |-> FLAG_NONE, ping_id |-> ping_id]

\* GoawayFrame.__init__ (frames.py:558-561)
GoawayFrame(last_stream_id, reason) ==
    [type |-> FrameTypes_GOAWAY, flags |-> FLAG_NONE, last_stream_id |-> last_stream_id,
     reason |-> reason]

\* WindowUpdateFrame.__init__ (frames.py:577-580)
WindowUpdateFrame(stream_id, size) ==
    [type |-> FrameTypes_WINDOW_UPDATE, flags |-> FLAG_NONE, stream_id |-> stream_id,
     size |-> size]

\* CredentialFrame.__init__ (frames.py:596-597)
CredentialFrame == [type |-> FrameTypes_CREDENTIAL, flags |-> FLAG_NONE]

\* the frame types whose body holds a compressed header block
HeaderTypes == {FrameTypes_SYN_STREAM, FrameTypes_SYN_REPLY, FrameTypes_HEADERS}

\* The compressor of a session (c_zlib.Compressor, frames.py:623): a stateful
\* stream.  Its n-th output can be decoded only by a decompressor that has
\* decoded the n - 1 outputs before it, which the model renders by a leading
\* byte that numbers the block.
compress(c, block) == [out |-> <<c % 256>> \o block, c |-> c + 1]

\* The decompressor of a session (c_zlib.Decompressor, frames.py:624): raises
\* when the bytes are not the next output of the peer's compressor
decompress(c, bytes) ==
    IF bytes[1] = c % 256
    THEN [ok |-> TRUE, out |-> Tail(bytes), c |-> c + 1]
    ELSE [ok |-> FALSE, out |-> <<>>, c |-> c]

\* a < b for byte strings, as Python compares str
RECURSIVE StrLess(_, _)
StrLess(a, b) ==
    IF b = <<>> THEN FALSE
    ELSE IF a = <<>> THEN TRUE
    ELSE IF a[1] # b[1] THEN a[1] < b[1]
    ELSE StrLess(Tail(a), Tail(b))

\* (n1, v1) <= (n2, v2) for header tuples, as Python compares tuples
TupleLeq(s, t) ==
    IF s[1] # t[1] THEN StrLess(s[1], t[1])
    ELSE s[2] = t[2] \/ StrLess(s[2], t[2])

\* the sequences that hold each index 1..n once
Orders(n) == {p \in [1 .. n -> 1 .. n] : \A i, j \in 1 .. n : p[i] = p[j] => i = j}

\* hdr_tuples.sort() (frames.py:380)
Sorted(hdr_tuples) ==
    LET n == Len(hdr_tuples)
        p == CHOOSE q \in Orders(n) :
                 \A i \in 1 .. n - 1 : TupleLeq(hdr_tuples[q[i]], hdr_tuples[q[i + 1]])
    IN  [i \in 1 .. n |-> hdr_tuples[p[i]]]

\* the names of a list of header tuples
NamesOf(hdr_tuples) == {hdr_tuples[i][1] : i \in DOMAIN hdr_tuples}

\* '\x00'.join(values)
RECURSIVE JoinNul(_)
JoinNul(values) ==
    IF values = <<>> THEN <<>>
    ELSE IF Len(values) = 1 THEN values[1]
    ELSE values[1] \o <<0>> \o JoinNul(Tail(values))

\* the values of the tuples named name, in the order of the list
RECURSIVE ValuesOf(_, _)
ValuesOf(hdr_tuples, name) ==
    IF hdr_tuples = <<>> THEN <<>>
    ELSE IF hdr_tuples[1][1] = name
    THEN <<hdr_tuples[1][2]>> \o ValuesOf(Tail(hdr_tuples), name)
    ELSE ValuesOf(Tail(hdr_tuples), name)

\* the orders in which a dict with these names can be iterated
DictOrders(names) ==
    {p \in [1 .. Cardinality(names) -> names] :
        \A i, j \in DOMAIN p : p[i] = p[j] => i = j}

\* collapse_dups (common.py:329-337): one tuple per name, its values joined
\* by NUL, in the order d.items() yields the names (dict_order)
collapse_dups(hdr_tuples, dict_order) ==
    [i \in DOMAIN dict_order |->
        <<dict_order[i], JoinNul(ValuesOf(hdr_tuples, dict_order[i]))>>]

\* the bytes of the header tuples after the count
RECURSIVE pack_tuples(_)
pack_tuples(hdr_tuples) ==
    IF hdr_tuples = <<>> THEN <<>>
    ELSE pack_I(Len(hdr_tuples[1][1])) \o hdr_tuples[1][1]
         \o pack_I(Len(hdr_tuples[1][2])) \o hdr_tuples[1][2]
         \o pack_tuples(Tail(hdr_tuples))

\* SpdyFrame._serialize_headers (frames.py:379-388)
serialize_headers(hdr_tuples, dict_order) ==
    LET collapsed == collapse_dups(Sorted(hdr_tuples), dict_order)
    IN  pack_I(Len(collapsed)) \o pack_tuples(collapsed)

\* SpdyFrame._serialize_control_frame (frames.py:370-376)
serialize_control_frame(type, flags, body) ==
    pack_H(32768 + SPDY_VERSION) \o pack_H(type)
    \o pack_I(flags * 16777216 + Len(body)) \o body

\* the bytes of the settings tuples after the count
RECURSIVE pack_settings(_)
pack_settings(settings_tuples) ==
    IF settings_tuples = <<>> THEN <<>>
    ELSE pack_I(settings_tuples[1][1] * 16777216 + settings_tuples[1][2])
         \o pack_I(settings_tuples[1][3]) \o pack_settings(Tail(settings_tuples))

\* settings_tuples.sort(key=itemgetter(1)) (frames.py:530): a stable sort by id
SortedSettings(settings_tuples) ==
    LET n == Len(settings_tuples)
        p == CHOOSE q \in Orders(n) :
                 \A i, j \in 1 .. n : i < j =>
                     \/ settings_tuples[q[i]][2] < settings_tuples[q[j]][2]
                     \/ settings_tuples[q[i]][2] = settings_tuples[q[j]][2] /\ q[i] < q[j]
    IN  [i \in 1 .. n |-> settings_tuples[p[i]]]

\* frame.serialize(context) of each frame class (frames.py:413-606): the
\* bytes of the frame and the state of the context's compressor afterwards.
\* dict_order is the order in which collapse_dups yields the header names.
frame_serialize(c, f, dict_order) ==
    IF f.type = FrameTypes_DATA
    THEN [out |-> pack_I_masked(f.stream_id)
                  \o pack_I(f.flags * 16777216 + Len(f.data)) \o f.data,
          c |-> c]
    ELSE IF f.type \in HeaderTypes
    THEN LET z == compress(c, serialize_headers(f.hdr_tuples.list, dict_order))
             body == IF f.type = FrameTypes_SYN_STREAM
                     THEN pack_I_masked(f.stream_id)
                          \o pack_I_masked(f.stream_assoc_id.int)
                          \o <<f.priority * 32>> \o <<f.slot.int>> \o z.out
                     ELSE pack_I_masked(f.stream_id) \o z.out
         IN  [out |-> serialize_control_frame(f.type, f.flags, body), c |-> z.c]
    ELSE LET body ==
                 IF f.type = FrameTypes_RST_STREAM
                 THEN pack_I_masked(f.stream_id) \o pack_I(f.status)
                 ELSE IF f.type = FrameTypes_SETTINGS
                 THEN pack_I(Len(f.settings_tuples.list))
                      \o pack_settings(SortedSettings(f.settings_tuples.list))
                 ELSE IF f.type = FrameTypes_PING
                 THEN pack_I(f.ping_id)
                 ELSE IF f.type = FrameTypes_GOAWAY
                 THEN pack_I_masked(f.last_stream_id) \o pack_I(f.reason)
                 ELSE IF f.type = FrameTypes_WINDOW_UPDATE
                 THEN pack_I_masked(f.stream_id) \o pack_I_masked(f.size)
                 ELSE <<>>
         IN  [out |-> serialize_control_frame(f.type, f.flags, body), c |-> c]

(* ---------------- the frame codec: parsing ---------------- *)

\* FrameTypes.values (frames.py:272-282)
FrameTypes_values ==
    {FrameTypes_DATA, FrameTypes_SYN_STREAM, FrameTypes_SYN_REPLY,
     FrameTypes_RST_STREAM, FrameTypes_SETTINGS, FrameTypes_PING,
     FrameTypes_GOAWAY, FrameTypes_HEADERS, FrameTypes_WINDOW_UPDATE,
     FrameTypes_CREDENTIAL}

\* ValidFlags (frames.py:290-300); FLAG_SETTINGS_CLEAR_SETTINGS is 1
ValidFlags(type) ==
    IF type = FrameTypes_SYN_STREAM THEN {FLAG_NONE, FLAG_FIN, FLAG_UNIDIRECTIONAL}
    ELSE IF type \in {FrameTypes_DATA, FrameTypes_SYN_REPLY, FrameTypes_HEADERS,
                      FrameTypes_SETTINGS}
    THEN {FLAG_NONE, FLAG_FIN}
    ELSE {FLAG_NONE}

\* MinFrameLen (frames.py:302-312)
MinFrameLen(type) ==
    IF type = FrameTypes_DATA THEN 0
    ELSE IF type = FrameTypes_SYN_STREAM THEN 10
    ELSE IF type \in {FrameTypes_RST_STREAM, FrameTypes_GOAWAY, FrameTypes_WINDOW_UPDATE}
    THEN 8
    ELSE IF type = FrameTypes_CREDENTIAL THEN 6
    ELSE 4

\* SettingsFlags.values (frames.py:331-334) and SettingsIDs.values (frames.py:336-344)
SettingsFlags_values == {0, 1, 2}
SettingsIDs_values == 1 .. 8

\* self._handle_error(err, status, stream_id, fatal) called by the parser
parser_error(P, err, status, stream_id, fatal) ==
    [P EXCEPT !.errors = Append(@, <<err, status, stream_id, fatal>>),
              !.calls = Append(@, <<"error", Len(P.errors) + 1>>)]

\* self._handle_frame(frame) called by the parser
parser_frame(P, frame) ==
    [P EXCEPT !.frames = Append(@, frame),
              !.calls = Append(@, <<"frame", Len(P.frames) + 1>>)]

\* name.lower() != name
HasUpper(name) == \E i \in DOMAIN name : name[i] \in 65 .. 90

\* '\x00' in s, and '\x00\x00' in s
HasNul(s) == \E i \in DOMAIN s : s[i] = 0
HasDoubleNul(s) == \E i \in 1 .. Len(s) - 1 : s[i] = 0 /\ s[i + 1] = 0

\* v.split('\x00') without its empty pieces, as expand_dups keeps them
RECURSIVE SplitNul(_, _)
SplitNul(v, piece) ==
    IF v = <<>> THEN (IF piece = <<>> THEN <<>> ELSE <<piece>>)
    ELSE IF v[1] = 0
    THEN (IF piece = <<>> THEN <<>> ELSE <<piece>>) \o SplitNul(Tail(v), <<>>)
    ELSE SplitNul(Tail(v), Append(piece, v[1]))

\* expand_dups (common.py:339-349)
RECURSIVE expand_dups(_)
expand_dups(hdr_tuples) ==
    IF hdr_tuples = <<>> THEN <<>>
    ELSE LET vals == SplitNul(hdr_tuples[1][2], <<>>)
         IN  [i \in DOMAIN vals |-> <<hdr_tuples[1][1], vals[i]>>]
             \o expand_dups(Tail(hdr_tuples))

\* The loop of _parse_hdrs (frames.py:772-851) from the cursor on: "ok" with
\* the tuples read, "HeaderError" when the loop reports one, "exception" when
\* struct.unpack or value[0] raises
RECURSIVE parse_tuples(_, _, _)
parse_tuples(block, cursor, hdrs) ==
    IF cursor >= Len(block) THEN [kind |-> "ok", hdrs |-> hdrs]
    ELSE IF Len(Slice(block, cursor, cursor + 4)) < 4
    THEN [kind |-> "exception", hdrs |-> hdrs]
    ELSE LET name_len == unpack(Slice(block, cursor, cursor + 4))
             name == Slice(block, cursor + 4, cursor + 4 + name_len)
             at_val == cursor + 4 + name_len
         IN  IF name_len > 16777216 \/ name_len = 0 \/ HasUpper(name) \/ HasNul(name)
                \/ name \in NamesOf(hdrs)
             THEN [kind |-> "HeaderError", hdrs |-> hdrs]
             ELSE IF Len(Slice(block, at_val, at_val + 4)) < 4
             THEN [kind |-> "exception", hdrs |-> hdrs]
             ELSE LET val_len == unpack(Slice(block, at_val, at_val + 4))
                      value == Slice(block, at_val + 4, at_val + 4 + val_len)
                  IN  IF val_len > 16777216
                      THEN [kind |-> "HeaderError", hdrs |-> hdrs]
                      ELSE IF value = <<>>
                      THEN [kind |-> "exception", hdrs |-> hdrs]
                      ELSE IF value[1] = 0 \/ value[Len(value)] = 0 \/ HasDoubleNul(value)
                      THEN [kind |-> "HeaderError", hdrs |-> hdrs]
                      ELSE parse_tuples(block, at_val + 4 + val_len,
                                        Append(hdrs, <<name, value>>))

\* _parse_hdrs reporting a failure of the decompressor on the stream of the
\* frame
parse_hdrs_DecompressStreamScoped(P, bytes, stream_id) ==
    IF bytes = <<>> THEN [P |-> P, ok |-> TRUE, hdrs |-> <<>>]
    ELSE LET z == decompress(P.decompress, bytes)
             Q == [P EXCEPT !.decompress = z.c]
             fatal == [P |-> parser_error(Q, "ParsingError", GOAWAY_INTERNAL_ERROR,
                                          None, TRUE),
                       ok |-> FALSE, hdrs |-> <<>>]
             refused == [P |-> parser_error(Q, "HeaderError", PROTOCOL_ERROR,
                                            stream_id, FALSE),
                         ok |-> FALSE, hdrs |-> <<>>]
         IN  IF ~z.ok THEN refused
             ELSE IF Len(z.out) < 4 THEN fatal
             ELSE IF unpack(Slice(z.out, 0, 4)) = 0
             THEN [P |-> Q, ok |-> TRUE, hdrs |-> <<>>]
             ELSE LET r == parse_tuples(z.out, 4, <<>>)
                  IN  IF r.kind = "exception" THEN fatal
                      ELSE IF r.kind = "HeaderError" THEN refused
                      ELSE IF unpack(Slice(z.out, 0, 4)) # Len(r.hdrs) THEN refused
                      ELSE [P |-> Q, ok |-> TRUE, hdrs |-> expand_dups(r.hdrs)]

\* SpdyMessageHandler._parse_hdrs (frames.py:752-864): the parser afterwards
\* and the list returned (hdrs), or None (ok is FALSE)
parse_hdrs(P, bytes, stream_id) ==
    IF bytes = <<>> THEN [P |-> P, ok |-> TRUE, hdrs |-> <<>>]
    ELSE LET z == decompress(P.decompress, bytes)
             Q == [P EXCEPT !.decompress = z.c]
             fatal == [P |-> parser_error(Q, "ParsingError", GOAWAY_INTERNAL_ERROR,
                                          None, TRUE),
                       ok |-> FALSE, hdrs |-> <<>>]
             refused == [P |-> parser_error(Q, "HeaderError", PROTOCOL_ERROR,
                                            stream_id, FALSE),
                         ok |-> FALSE, hdrs |-> <<>>]
         IN  IF ~z.ok THEN fatal
             ELSE IF Len(z.out) < 4 THEN fatal
             ELSE IF unpack(Slice(z.out, 0, 4)) = 0
             THEN [P |-> Q, ok |-> TRUE, hdrs |-> <<>>]
             ELSE LET r == parse_tuples(z.out, 4, <<>>)
                  IN  IF r.kind = "exception" THEN fatal
                      ELSE IF r.kind = "HeaderError" THEN refused
                      ELSE IF unpack(Slice(z.out, 0, 4)) # Len(r.hdrs) THEN refused
                      ELSE [P |-> Q, ok |-> TRUE, hdrs |-> expand_dups(r.hdrs)]

\* The loop of _parse_settings (frames.py:878-892): "ok" with the entries
\* read, "refused" on an unknown flag or id, "exception" when struct.unpack
\* raises
RECURSIVE parse_entries(_, _, _)
parse_entries(bytes, cursor, entries) ==
    IF cursor >= Len(bytes) THEN [kind |-> "ok", entries |-> entries]
    ELSE IF Len(Slice(bytes, cursor, cursor + 8)) < 8
    THEN [kind |-> "exception", entries |-> entries]
    ELSE LET flags == bytes[cursor + 1]
             id == unpack(Slice(bytes, cursor + 1, cursor + 4))
             value == unpack(Slice(bytes, cursor + 4, cursor + 8))
         IN  IF flags \notin SettingsFlags_values \/ id \notin SettingsIDs_values
             THEN [kind |-> "refused", entries |-> entries]
             ELSE parse_entries(bytes, cursor + 8, Append(entries, <<flags, id, value>>))

\* SpdyMessageHandler._parse_settings (frames.py:866-905): the parser
\* afterwards and the value returned
parse_settings(P, bytes) ==
    IF bytes = <<>> THEN [P |-> P, settings |-> PyList(<<>>)]
    ELSE IF Len(bytes) < 4
    THEN [P |-> parser_error(P, "ParsingError", GOAWAY_INTERNAL_ERROR, None, FALSE),
          settings |-> PyNone]
    ELSE IF unpack(Slice(bytes, 0, 4)) = 0 THEN [P |-> P, settings |-> PyList(<<>>)]
    ELSE LET r == parse_entries(bytes, 4, <<>>)
         IN  IF r.kind = "exception"
             THEN [P |-> parser_error(P, "ParsingError", GOAWAY_INTERNAL_ERROR,
                                      None, FALSE),
                   settings |-> PyNone]
             ELSE IF r.kind = "refused" \/ unpack(Slice(bytes, 0, 4)) # Len(r.entries)
             THEN [P |-> parser_error(P, "ParsingError", GOAWAY_PROTOCOL_ERROR,
                                      None, FALSE),
                   settings |-> PyNone]
             ELSE [P |-> P, settings |-> PyList(r.entries)]

\* SpdyMessageHandler._valid_frame_type (frames.py:969-978)
valid_frame_type(P) ==
    IF P.input_frame_type \notin FrameTypes_values
    THEN [P |-> parser_error(P, "ParsingError", GOAWAY_PROTOCOL_ERROR, None, TRUE),
          ok |-> FALSE]
    ELSE [P |-> P, ok |-> TRUE]

\* SpdyMessageHandler._valid_frame_version (frames.py:950-967)
valid_frame_version(P, body) ==
    IF P.input_frame_type = FrameTypes_DATA \/ P.input_frame_version = SPDY_VERSION
    THEN [P |-> P, ok |-> TRUE]
    ELSE IF Len(body) >= 4 /\ P.input_frame_type \in HeaderTypes
    THEN [P |-> parser_error(P, "SpdyVersionError", UNSUPPORTED_VERSION,
                             unpack_masked(Slice(body, 0, 4)), FALSE),
          ok |-> FALSE]
    ELSE [P |-> parser_error(P, "SpdyVersionError", GOAWAY_PROTOCOL_ERROR, None, TRUE),
          ok |-> FALSE]

\* SpdyMessageHandler._valid_frame_flags (frames.py:980-990)
valid_frame_flags(P) ==
    IF P.input_flags \notin ValidFlags(P.input_frame_type)
    THEN [P |-> parser_error(P, "ParsingError", GOAWAY_PROTOCOL_ERROR, None, TRUE),
          ok |-> FALSE]
    ELSE [P |-> P, ok |-> TRUE]

\* _valid_frame_size reporting an oversized header-bearing frame as an error
\* of its stream only
valid_frame_size_StreamScopedOnly(P, body) ==
    IF P.input_frame_type = FrameTypes_DATA THEN [P |-> P, ok |-> TRUE]
    ELSE IF P.input_frame_len + 8 > max_control_frame_size
    THEN IF Len(body) >= 4 /\ P.input_frame_type \in HeaderTypes
         THEN [P |-> parser_error(P, "FrameSizeError", FRAME_TOO_LARGE,
                                  unpack_masked(Slice(body, 0, 4)), FALSE),
               ok |-> FALSE]
         ELSE [P |-> parser_error(P, "FrameSizeError", GOAWAY_INTERNAL_ERROR, None, TRUE),
               ok |-> FALSE]
    ELSE IF P.input_frame_len < MinFrameLen(P.input_frame_type)
    THEN [P |-> parser_error(P, "ParsingError", GOAWAY_INTERNAL_ERROR, None, TRUE),
          ok |-> FALSE]
    ELSE [P |-> P, ok |-> TRUE]

\* SpdyMessageHandler._valid_frame_size (frames.py:907-948)
valid_frame_size(P, body) ==
    IF P.input_frame_type = FrameTypes_DATA THEN [P |-> P, ok |-> TRUE]
    ELSE IF P.input_frame_len + 8 > max_control_frame_size
    THEN IF Len(body) >= 4 /\ P.input_frame_type \in HeaderTypes
         THEN [P |-> parser_error(
                         parser_error(P, "FrameSizeError", FRAME_TOO_LARGE,
                                      unpack_masked(Slice(body, 0, 4)), FALSE),
                         "None", GOAWAY_INTERNAL_ERROR, None, TRUE),
               ok |-> FALSE]
         ELSE [P |-> parser_error(P, "FrameSizeError", GOAWAY_INTERNAL_ERROR, None, TRUE),
               ok |-> FALSE]
    ELSE IF P.input_frame_len < MinFrameLen(P.input_frame_type)
    THEN [P |-> parser_error(P, "ParsingError", GOAWAY_INTERNAL_ERROR, None, TRUE),
          ok |-> FALSE]
    ELSE [P |-> P, ok |-> TRUE]

\* the pre-check of a complete frame in _handle_input (frames.py:677-680):
\* the four tests joined by `and`, which stops at the first that fails
valid_frame(P, body) ==
    LET a == valid_frame_type(P)
        b == valid_frame_version(a.P, body)
        c == valid_frame_flags(b.P)
    IN  IF ~a.ok THEN a
        ELSE IF ~b.ok THEN b
        ELSE IF ~c.ok THEN c
        ELSE valid_frame_size(c.P, body)

\* the body of one complete frame is parsed and the frame is passed to
\* _handle_frame (frames.py:681-741)
parse_frame(P, body) ==
    LET t == P.input_frame_type
    IN  IF t = FrameTypes_DATA
        THEN parser_frame(P, DataFrame(P.input_flags, P.input_stream_id, body))
        ELSE IF t = FrameTypes_SYN_STREAM
        THEN LET h == parse_hdrs(P, Slice(body, 10, Len(body)),
                                 unpack_masked(Slice(body, 0, 4)))
             IN  IF h.ok
                 THEN parser_frame(h.P,
                          SynSteamFrame(P.input_flags,
                                        unpack_masked(Slice(body, 0, 4)),
                                        PyInt(unpack_masked(Slice(body, 4, 8))),
                                        body[9] \div 32,
                                        PyInt(body[10]),
                                        PyList(h.hdrs)))
                 ELSE h.P
        ELSE IF t \in {FrameTypes_SYN_REPLY, FrameTypes_HEADERS}
        THEN LET h == parse_hdrs(P, Slice(body, 4, Len(body)),
                                 unpack_masked(Slice(body, 0, 4)))
                 id == unpack_masked(Slice(body, 0, 4))
             IN  IF h.ok
                 THEN parser_frame(h.P,
                          IF t = FrameTypes_SYN_REPLY
                          THEN SynReplyFrame(P.input_flags, id, PyList(h.hdrs))
                          ELSE HeadersFrame(P.input_flags, id, PyList(h.hdrs)))
                 ELSE h.P
        ELSE IF t = FrameTypes_RST_STREAM
        THEN parser_frame(P, RstStreamFrame(unpack_masked(Slice(body, 0, 4)),
                                            unpack(Slice(body, 4, 8))))
        ELSE IF t = FrameTypes_SETTINGS
        THEN LET s == parse_settings(P, body)
             IN  parser_frame(s.P, SettingsFrame(P.input_flags, s.settings))
        ELSE IF t = FrameTypes_PING
        THEN parser_frame(P, PingFrame(unpack(Slice(body, 0, 4))))
        ELSE IF t = FrameTypes_GOAWAY
        THEN parser_frame(P, GoawayFrame(unpack_masked(Slice(body, 0, 4)),
                                         unpack(Slice(body, 4, 8))))
        ELSE IF t = FrameTypes_WINDOW_UPDATE
        THEN parser_frame(P, WindowUpdateFrame(unpack_masked(Slice(body, 0, 4)),
                                               unpack_masked(Slice(body, 4, 8))))
        ELSE parser_frame(P, CredentialFrame)

\* an incomplete frame header or body is dropped instead of being kept
keep_input_Dropped(Q, bytes) == Q

\* self._input_buffer = data (frames.py:672, 748): the bytes of an incomplete
\* frame header or body are kept for the next chunk
keep_input(Q, bytes) == [Q EXCEPT !.input_buffer = bytes]

\* SpdyMessageHandler._handle_input (frames.py:649-750)
RECURSIVE handle_input(_, _)
handle_input(P, chunk) ==
    LET bytes == P.input_buffer \o chunk
        Q == [P EXCEPT !.input_buffer = <<>>]
    IN  IF Q.input_state = "WAITING"
        THEN IF Len(bytes) >= 8
             THEN LET R == IF bytes[1] >= 128
                           THEN [Q EXCEPT
                                   !.input_frame_version = (bytes[1] % 128) * 256 + bytes[2],
                                   !.input_frame_type = bytes[3] * 256 + bytes[4],
                                   !.input_stream_id = None]
                           ELSE [Q EXCEPT
                                   !.input_frame_type = FrameTypes_DATA,
                                   !.input_stream_id = unpack_masked(Slice(bytes, 0, 4))]
                  IN  handle_input([R EXCEPT !.input_flags = bytes[5],
                                             !.input_frame_len = unpack(Slice(bytes, 5, 8)),
                                             !.input_state = "READING_FRAME_DATA"],
                                   Slice(bytes, 8, Len(bytes)))
             ELSE keep_input(Q, bytes)
        ELSE IF Len(bytes) >= Q.input_frame_len
        THEN LET body == Slice(bytes, 0, Q.input_frame_len)
                 rest == Slice(bytes, Q.input_frame_len, Len(bytes))
                 v == valid_frame(Q, body)
                 R == IF v.ok THEN parse_frame(v.P, body) ELSE v.P
                 W == [R EXCEPT !.input_state = "WAITING"]
             IN  IF rest # <<>> THEN handle_input(W, rest) ELSE W
        ELSE keep_input(Q, bytes)

(* ---------------- the codec as a state machine ---------------- *)

\* the header names 'a', 'b', 'A' and the values 'x', 'y' of the frames below
NameA == <<97>>
NameB == <<98>>
NameUpper == <<65>>
ValX == <<120>>
ValY == <<121>>

\* a tuple of a header list
pair(name, value) == <<name, value>>

\* The frames the sending side serializes: one of each type, header lists
\* with one name, with two names out of order, with a name twice and with an
\* empty value (as ':method' may have in _req_start, client.py:211-214)
CodecFrames ==
    {DataFrame(FLAG_FIN, 1, ValX),
     SynSteamFrame(FLAG_NONE, 1, PyList(<<pair(NameA, ValX)>>), 1,
                   PyInt(0), PyInt(0)),
     SynReplyFrame(FLAG_NONE, 1, PyList(<<pair(NameA, ValX)>>)),
     SynReplyFrame(FLAG_FIN, 1, PyList(<<pair(NameA, <<>>)>>)),
     HeadersFrame(FLAG_NONE, 1, PyList(<<pair(NameB, ValX),
                                          pair(NameA, ValY)>>)),
     HeadersFrame(FLAG_FIN, 1, PyList(<<pair(NameA, ValX),
                                         pair(NameA, ValY)>>)),
     RstStreamFrame(1, PROTOCOL_ERROR),
     SettingsFrame(FLAG_NONE, PyList(<< <<0, 4, 100>> >>)),
     PingFrame(1),
     GoawayFrame(1, GOAWAY_OK),
     WindowUpdateFrame(1, 10),
     CredentialFrame}

\* a header block as the wire holds it before compression: the declared
\* count and the pairs, as _serialize_headers packs them (frames.py:383-387)
raw_block(count, hdr_tuples) == pack_I(count) \o pack_tuples(hdr_tuples)

\* the bytes of a frame of a header-bearing type for the stream id that
\* carries the given header block
header_frame(type, id, block) ==
    serialize_control_frame(type, FLAG_NONE,
        IF type = FrameTypes_SYN_STREAM
        THEN pack_I_masked(id) \o pack_I_masked(0) \o <<0, 0>> \o block
        ELSE pack_I_masked(id) \o block)

\* The header blocks _parse_hdrs refuses (frames.py:776-851): a count that
\* differs from the pairs present, a name twice, an upper-case name, a value
\* with a leading, a trailing and a doubled NUL
BadBlocks ==
    {raw_block(2, <<pair(NameA, ValX)>>),
     raw_block(2, <<pair(NameA, ValX), pair(NameA, ValY)>>),
     raw_block(1, <<pair(NameUpper, ValX)>>),
     raw_block(1, <<pair(NameA, <<0>> \o ValX)>>),
     raw_block(1, <<pair(NameA, ValX \o <<0>>)>>),
     raw_block(1, <<pair(NameA, ValX \o <<0, 0>> \o ValY)>>)}

\* a header block the decompressor with context c fails on: it was not
\* compressed in step with that context
Undecodable(c) == <<(c + 1) % 256>> \o raw_block(1, <<pair(NameA, ValX)>>)

\* the bytes of a control frame with the version field of another version
\* of the protocol
OtherVersion(w) == pack_H(32768 + 2) \o SubSeq(w, 3, Len(w))

\* Bytes of a peer that does not follow the protocol, given the state c of
\* its compressor: frames with a header block that is refused, a frame of
\* another version with a header block, frames whose header block cannot be
\* decompressed, a frame of another version, of an unknown type, with an
\* undefined flag and one shorter than its type allows
Malformed(c) ==
    {[out |-> OtherVersion(header_frame(FrameTypes_SYN_REPLY, 1,
                  compress(c, raw_block(1, <<pair(NameA, ValX)>>)).out)),
      c |-> c + 1]} \cup
    {[out |-> header_frame(FrameTypes_SYN_REPLY, 1, compress(c, b).out), c |-> c + 1] :
        b \in BadBlocks}
    \cup {[out |-> header_frame(type, 1, compress(c, CHOOSE b \in BadBlocks : TRUE).out),
           c |-> c + 1] : type \in {FrameTypes_SYN_STREAM, FrameTypes_HEADERS}}
    \cup {[out |-> w, c |-> c] :
             w \in {header_frame(FrameTypes_SYN_REPLY, 1, Undecodable(c)),
                    header_frame(FrameTypes_SYN_STREAM, 1, Undecodable(c)),
                    pack_H(32768 + 2) \o pack_H(FrameTypes_PING) \o pack_I(4) \o pack_I(1),
                    pack_H(32768 + SPDY_VERSION) \o pack_H(5) \o pack_I(0),
                    serialize_control_frame(FrameTypes_PING, FLAG_FIN, pack_I(1)),
                    serialize_control_frame(FrameTypes_RST_STREAM, FLAG_NONE, pack_I(1))}}

\* The session's reaction to the errors its parser reported: each
\* _handle_error(err, status, stream_id, fatal) of frames.py runs
\* SpdySession._handle_error(err, status, stream_id) (common.py:1149-1167),
\* which has no `fatal` parameter and tells the scope by stream_id
RECURSIVE report_errors(_, _)
report_errors(S, errors) ==
    IF errors = <<>> THEN S
    ELSE report_errors(handle_error(S, errors[1][1], errors[1][2], errors[1][3]),
                       Tail(errors))

\* frame.serialize(context) on the sending side (frames.py:369-604): the
\* bytes go to the transport
CodecSerialize(f, dict_order) ==
    /\ peer.writes < MaxCodecFrames
    /\ LET w == frame_serialize(peer.compress, f, dict_order)
       IN  /\ peer' = [compress |-> w.c, frames |-> Append(peer.frames, f),
                       writes |-> peer.writes + 1]
           /\ pending' = pending \o w.out
    /\ UNCHANGED <<delivered, parser>>
    /\ UNCHANGED <<config, sched, ping, session_fields, quiet>>

\* the peer writes bytes that no frame serializes to
PeerWrites(m) ==
    /\ peer.writes < MaxCodecFrames
    /\ peer' = [peer EXCEPT !.compress = m.c, !.writes = @ + 1]
    /\ pending' = pending \o m.out
    /\ UNCHANGED <<delivered, parser>>
    /\ UNCHANGED <<config, sched, ping, session_fields, quiet>>

\* The transport delivers the next k bytes in one chunk: the 'data' callback
\* is _handle_input (common.py:1115, frames.py:649-750); _conn_closed calls
\* it with no bytes (common.py:1131)
CodecFeed(k) ==
    /\ parser' = handle_input(parser, SubSeq(pending, 1, k))
    /\ delivered' = delivered \o SubSeq(pending, 1, k)
    /\ pending' = SubSeq(pending, k + 1, Len(pending))
    /\ UNCHANGED peer
    /\ UNCHANGED <<config, sched, ping, session_fields, quiet>>

\* the orders a dict may give the names of a frame's header list
FrameDictOrders(f) ==
    IF f.type \in HeaderTypes THEN DictOrders(NamesOf(f.hdr_tuples.list)) ELSE {<<>>}

CodecNext ==
    \/ \E f \in CodecFrames : \E o \in FrameDictOrders(f) : CodecSerialize(f, o)
    \/ \E m \in Malformed(peer.compress) : PeerWrites(m)
    \/ \E k \in 0 .. Len(pending) : CodecFeed(k)

\* a bound client session whose transport carries the frames of CodecFrames
\* and the bytes of Malformed to its parser
CodecInit == PingInit /\ is_client

CodecSpec == CodecInit /\ [][CodecNext]_vars

(* ---------------- stream ids at the end of the id space ---------------- *)

\* the highest ids a client session has opened before: the last MaxIdSteps + 1
\* odd counter values from which _next_created_stream_id still has to decide
NearLimit == {MAX_STREAM_ID - 1 - 2 * k : k \in 0 .. MaxIdSteps}

\* A bound client session (SpdySession.__init__, then _bind) after it has
\* opened the streams up to an id of NearLimit; the exchanges of those
\* streams, long closed, are not kept
IdInit ==
    /\ is_client = TRUE
    /\ idle_timeout = TRUE
    /\ read_timeout = TRUE
    /\ tcp_conn = "connected"
    /\ registered = TRUE
    /\ exchanges = <<>>
    /\ highest_created_stream_id \in NearLimit
    /\ highest_accepted_stream_id = 0
    /\ sent_goaway = FALSE
    /\ received_goaway = FALSE
    /\ idle_timeout_ev = "pending"
    /\ output_buffer = <<>>
    /\ SchedIdle
    /\ PingIdle
    /\ ClockIdle
    /\ CodecIdle

\* SpdyClientExchange.request_start (client.py:67-96) on a fresh exchange; the
\* counter is advanced also by a call that raises
IdRequestStart(done) ==
    /\ highest_created_stream_id < MAX_STREAM_ID + 2 * MaxIdSteps
    /\ Commit(req_start(Cur, None, done))

IdNext ==
    \/ \E done \in BOOLEAN : IdRequestStart(done)
    \/ \E x \in DOMAIN exchanges : RequestDone(x)
    \/ \E x \in DOMAIN exchanges : Cancel(x)

IdSpec == IdInit /\ [][IdNext]_vars

(* ---------------- properties ---------------- *)

\* the entry point emitted the event on the target (SESSION or a stream id)
Emitted(S, target, name, detail) ==
    \E i \in DOMAIN S.events : S.events[i] = <<target, name, detail>>

\* the entry point queued the frame
Queued(S, frame) == \E i \in DOMAIN S.frames : S.frames[i] = frame

\* the exchanges that are active
ActiveIds(S) == {i \in DOMAIN S.exchanges : is_active_exchange(S.exchanges[i])}

\* the session when the handlers of a received frame of the type start
Received(type) == handle_frame(Cur, type)

\* R is the session after a session-scoped error err with GOAWAY reason
\* `reason` hit the current session: the error was emitted on the session and
\* on every exchange that was active, no exchange is active any more, none
\* was created, highest_accepted_stream_id is as before, the GOAWAY was
\* queued and the session is closed.
SessionFatal(R, err, reason) ==
    /\ Emitted(R, SESSION, "error", err)
    /\ \A i \in ActiveIds(Cur) : Emitted(R, i, "error", err)
    /\ ActiveIds(R) = {}
    /\ DOMAIN R.exchanges = DOMAIN exchanges
    /\ R.highest_accepted_stream_id = highest_accepted_stream_id
    /\ Queued(R, Frame("GOAWAY",
                       IF highest_accepted_stream_id > 0
                       THEN highest_accepted_stream_id ELSE 0, reason))
    /\ R.tcp_conn = "closed"
    /\ Emitted(R, SESSION, "close", "")

\* R is the session after a stream-scoped error err with the status hit
\* exchange id of the current session: the error was emitted on that exchange
\* and on nothing else, the exchange is DONE on both axes, RST_STREAM(id,
\* status) was queued, and the transport, the goaway flags, the highest ids
\* and every other exchange are as before.
StreamFatal(R, id, err, status) ==
    /\ Emitted(R, id, "error", err)
    /\ \A i \in DOMAIN R.events :
          R.events[i][2] = "error" => R.events[i] = <<id, "error", err>>
    /\ R.exchanges[id].req_state = "DONE" /\ R.exchanges[id].res_state = "DONE"
    /\ Queued(R, Frame("RST_STREAM", id, status))
    /\ R.tcp_conn = tcp_conn
    /\ R.sent_goaway = sent_goaway /\ R.received_goaway = received_goaway
    /\ R.highest_created_stream_id = highest_created_stream_id
    /\ R.highest_accepted_stream_id = highest_accepted_stream_id
    /\ DOMAIN R.exchanges = DOMAIN exchanges
    /\ \A i \in DOMAIN exchanges \ {id} : R.exchanges[i] = exchanges[i]

\* C1 (as amended): on a connected session of either role, validating the
\* stream id m of a received SYN_STREAM, with m nonzero and lower than
\* highest_accepted_stream_id, fails with a session-scoped StreamIdError: no
\* exchange is created, highest_accepted_stream_id is unchanged, every active
\* exchange ends DONE and the session is closed; and a client session that has
\* not sent a GOAWAY handles every such SYN_STREAM that way.
C1_LowerIdIsSessionFatal ==
    tcp_conn = "connected" =>
        \A m \in 1 .. MaxStreamId : m < highest_accepted_stream_id =>
            /\ LET v == valid_new_stream_id(Received("SYN_STREAM"), m)
               IN  ~v.ok /\ SessionFatal(v.S, "StreamIdError", GOAWAY_PROTOCOL_ERROR)
            /\ (is_client /\ ~sent_goaway) =>
                   \A a \in AssocIds, in \in SynStreamInputs :
                       SessionFatal(frame_syn_stream(Received("SYN_STREAM"),
                                                     m, a, in[1], in[2]),
                                    "StreamIdError", GOAWAY_PROTOCOL_ERROR)

\* C1 as stated: in every reachable state the SYN_STREAM with the lower id is
\* rejected with the session-scoped error, also by a client session that has
\* sent a GOAWAY.
C1_Original ==
    tcp_conn = "connected" =>
        \A m \in 1 .. MaxStreamId : m < highest_accepted_stream_id =>
            /\ LET v == valid_new_stream_id(Received("SYN_STREAM"), m)
               IN  ~v.ok /\ SessionFatal(v.S, "StreamIdError", GOAWAY_PROTOCOL_ERROR)
            /\ is_client =>
                   \A a \in AssocIds, in \in SynStreamInputs :
                       SessionFatal(frame_syn_stream(Received("SYN_STREAM"),
                                                     m, a, in[1], in[2]),
                                    "StreamIdError", GOAWAY_PROTOCOL_ERROR)

\* a client session with an active exchange that receives SYN_STREAM(1) after
\* it accepted stream 2, and is closed by it
C1_Witness ==
    /\ is_client /\ tcp_conn = "connected" /\ ~sent_goaway
    /\ highest_accepted_stream_id = 2
    /\ ActiveIds(Cur) # {}
    /\ frame_syn_stream(Received("SYN_STREAM"), 1, 0, FLAG_NONE, TRUE).tcp_conn = "closed"

\* C2 (as amended): on a connected session whose highest_accepted_stream_id
\* is the id of an accepted stream, validating a SYN_STREAM with that id fails
\* with a stream-scoped StreamIdError of status PROTOCOL_ERROR: the error is
\* delivered to that exchange, RST_STREAM(id, PROTOCOL_ERROR) is queued and
\* the session stays active with its goaway flags, highest ids and every
\* other exchange unchanged; a client session that has not sent a GOAWAY
\* handles every such SYN_STREAM that way.
C2_DuplicateIdIsStreamScoped ==
    (tcp_conn = "connected" /\ highest_accepted_stream_id > 0) =>
        /\ LET v == valid_new_stream_id(Received("SYN_STREAM"), highest_accepted_stream_id)
           IN  ~v.ok /\ StreamFatal(v.S, highest_accepted_stream_id,
                                    "StreamIdError", PROTOCOL_ERROR)
        /\ (is_client /\ ~sent_goaway) =>
               \A a \in AssocIds, in \in SynStreamInputs :
                   StreamFatal(frame_syn_stream(Received("SYN_STREAM"),
                                   highest_accepted_stream_id, a, in[1], in[2]),
                               highest_accepted_stream_id, "StreamIdError", PROTOCOL_ERROR)

\* C2 as stated: the duplicate SYN_STREAM is answered with status STREAM_IN_USE.
C2_Original ==
    (tcp_conn = "connected" /\ highest_accepted_stream_id > 0) =>
        /\ LET v == valid_new_stream_id(Received("SYN_STREAM"), highest_accepted_stream_id)
           IN  ~v.ok /\ StreamFatal(v.S, highest_accepted_stream_id,
                                    "StreamIdError", STREAM_IN_USE)
        /\ is_client =>
               \A a \in AssocIds, in \in SynStreamInputs :
                   StreamFatal(frame_syn_stream(Received("SYN_STREAM"),
                                   highest_accepted_stream_id, a, in[1], in[2]),
                               highest_accepted_stream_id, "StreamIdError", STREAM_IN_USE)

\* a client session that receives a second SYN_STREAM(2) while the pushed
\* stream 2 and another exchange are active, and queues the RST_STREAM
C2_Witness ==
    /\ is_client /\ tcp_conn = "connected" /\ ~sent_goaway
    /\ highest_accepted_stream_id = 2
    /\ {1, 2} \subseteq ActiveIds(Cur)
    /\ Queued(frame_syn_stream(Received("SYN_STREAM"), 2, 1, FLAG_UNIDIRECTIONAL, TRUE),
              Frame("RST_STREAM", 2, PROTOCOL_ERROR))

\* the stream id has the parity of the ids the peer opens
RemoteParity(id) == IF is_client THEN id % 2 = 0 ELSE id % 2 = 1

\* the exchange was opened by the peer
RemoteOpened(e) == IF is_client THEN e.pushed ELSE ~e.pushed

\* C3 (as amended): every exchange accepted from the peer, and
\* highest_accepted_stream_id once a stream was accepted, has the remote
\* role's parity (odd on a server session, even on a client session); on a
\* connected session, validating a SYN_STREAM whose id is above
\* highest_accepted_stream_id and of the wrong parity fails with a
\* session-scoped StreamIdError with reason PROTOCOL_ERROR, no exchange is
\* created and the session is closed; a client session that has not sent a
\* GOAWAY handles every such SYN_STREAM that way.
C3_RemoteParity ==
    /\ \A id \in DOMAIN exchanges : RemoteOpened(exchanges[id]) => RemoteParity(id)
    /\ highest_accepted_stream_id > 0 => RemoteParity(highest_accepted_stream_id)
    /\ tcp_conn = "connected" =>
        \A m \in 1 .. MaxStreamId :
            (m > highest_accepted_stream_id /\ ~RemoteParity(m)) =>
                /\ LET v == valid_new_stream_id(Received("SYN_STREAM"), m)
                   IN  ~v.ok /\ SessionFatal(v.S, "StreamIdError", GOAWAY_PROTOCOL_ERROR)
                /\ (is_client /\ ~sent_goaway) =>
                       \A a \in AssocIds, in \in SynStreamInputs :
                           SessionFatal(frame_syn_stream(Received("SYN_STREAM"),
                                                         m, a, in[1], in[2]),
                                        "StreamIdError", GOAWAY_PROTOCOL_ERROR)

\* C3 as stated: the SYN_STREAM of the wrong parity closes the session in
\* every reachable state, also a client session that has sent a GOAWAY.
C3_Original ==
    /\ \A id \in DOMAIN exchanges : RemoteOpened(exchanges[id]) => RemoteParity(id)
    /\ tcp_conn = "connected" =>
        \A m \in 1 .. MaxStreamId :
            (m > highest_accepted_stream_id /\ ~RemoteParity(m)) =>
                /\ LET v == valid_new_stream_id(Received("SYN_STREAM"), m)
                   IN  ~v.ok /\ SessionFatal(v.S, "StreamIdError", GOAWAY_PROTOCOL_ERROR)
                /\ is_client =>
                       \A a \in AssocIds, in \in SynStreamInputs :
                           SessionFatal(frame_syn_stream(Received("SYN_STREAM"),
                                                         m, a, in[1], in[2]),
                                        "StreamIdError", GOAWAY_PROTOCOL_ERROR)

\* a client session that accepted the pushed stream 2 and is closed by
\* SYN_STREAM(3) while an exchange is active
C3_Witness ==
    /\ is_client /\ tcp_conn = "connected" /\ ~sent_goaway
    /\ highest_accepted_stream_id = 2 /\ exchanges[2].pushed
    /\ ActiveIds(Cur) # {}
    /\ frame_syn_stream(Received("SYN_STREAM"), 3, 1, FLAG_UNIDIRECTIONAL, TRUE).tcp_conn
           = "closed"

\* C4 as stated: highest_accepted_stream_id is the largest stream id that
\* passed _valid_new_stream_id: it never decreases, and when a client session
\* that has not sent a GOAWAY receives a SYN_STREAM whose id passes
\* _valid_new_stream_id, highest_accepted_stream_id is that id afterwards,
\* also when the stream is refused for its associated stream or its headers.
C4_Original ==
    (is_client /\ tcp_conn = "connected" /\ ~sent_goaway) =>
        \A m \in StreamIds, a \in AssocIds, in \in SynStreamInputs :
            LET R == frame_syn_stream(Received("SYN_STREAM"), m, a, in[1], in[2])
            IN  /\ R.highest_accepted_stream_id >= highest_accepted_stream_id
                /\ valid_new_stream_id(Received("SYN_STREAM"), m).ok =>
                       R.highest_accepted_stream_id = m

\* the stream id has the parity of the ids the session opens
LocalParity(id) == IF is_client THEN id % 2 = 1 ELSE id % 2 = 0 /\ id # 0

Errors == {"StreamIdError", "ConnectionClosedError", "ReadTimeoutError"}

\* C6: _handle_error without a stream id on an active session emits the error
\* on the session, leaves no exchange active, delivers that error and no
\* other to every exchange that was active and none to the others, queues
\* GOAWAY(max(highest_accepted_stream_id, 0), reason) when a reason is given
\* and no frame otherwise, closes the transport and emits 'close'.
C6_SessionScopedError ==
    tcp_conn = "connected" =>
        \A err \in Errors, reason \in {None, GOAWAY_OK, GOAWAY_PROTOCOL_ERROR} :
            LET R == handle_error(Cur, err, reason, None)
            IN  /\ Emitted(R, SESSION, "error", err)
                /\ ActiveIds(R) = {}
                /\ \A i \in ActiveIds(Cur) : Emitted(R, i, "error", err)
                /\ \A k \in DOMAIN R.events :
                      (R.events[k][1] # SESSION /\ R.events[k][2] = "error") =>
                          R.events[k][1] \in ActiveIds(Cur) /\ R.events[k][3] = err
                /\ R.frames = IF reason = None THEN <<>>
                              ELSE <<Frame("GOAWAY",
                                           IF highest_accepted_stream_id > 0
                                           THEN highest_accepted_stream_id ELSE 0,
                                           reason)>>
                /\ R.tcp_conn = "closed"
                /\ ~is_active(R)
                /\ R.events[Len(R.events)] = <<SESSION, "close", "">>

\* a connected session with an active and a closed exchange that is hit by a
\* session error with a reason
C6_Witness ==
    /\ tcp_conn = "connected"
    /\ ActiveIds(Cur) # {} /\ ActiveIds(Cur) # DOMAIN exchanges
    /\ highest_accepted_stream_id > 0
    /\ LET R == handle_error(Cur, "StreamIdError", GOAWAY_OK, None)
       IN  /\ R.tcp_conn = "closed"
           /\ Queued(R, Frame("GOAWAY", highest_accepted_stream_id, GOAWAY_OK))

\* C7: _handle_error with the stream id of an exchange of the table, on an
\* active session, emits the error on that exchange and nothing else, makes
\* both axes of the exchange DONE, queues RST_STREAM(stream_id, status) when a
\* status is given and no frame otherwise, and leaves the transport, the
\* goaway flags, the highest stream ids and every other exchange as they were.
C7_StreamScopedError ==
    tcp_conn = "connected" =>
        \A id \in DOMAIN exchanges, err \in Errors,
           status \in {None, PROTOCOL_ERROR, CANCEL} :
            LET R == handle_error(Cur, err, status, id)
            IN  /\ R.events = << <<id, "error", err>> >>
                /\ R.exchanges[id].req_state = "DONE"
                /\ R.exchanges[id].res_state = "DONE"
                /\ R.frames = IF status = None THEN <<>>
                              ELSE <<Frame("RST_STREAM", id, status)>>
                /\ R.tcp_conn = "connected" /\ is_active(R)
                /\ R.sent_goaway = sent_goaway /\ R.received_goaway = received_goaway
                /\ R.highest_created_stream_id = highest_created_stream_id
                /\ R.highest_accepted_stream_id = highest_accepted_stream_id
                /\ DOMAIN R.exchanges = DOMAIN exchanges
                /\ \A i \in DOMAIN exchanges \ {id} : R.exchanges[i] = exchanges[i]

\* a connected session with two active exchanges, one of which is closed by a
\* stream error with a status while the other stays active
C7_Witness ==
    /\ tcp_conn = "connected"
    /\ {1, 2} \subseteq ActiveIds(Cur)
    /\ LET R == handle_error(Cur, "ReadTimeoutError", CANCEL, 1)
       IN  /\ Queued(R, Frame("RST_STREAM", 1, CANCEL))
           /\ ActiveIds(R) = ActiveIds(Cur) \ {1}

\* R is the session after a frame for the unknown stream id was answered:
\* RST_STREAM(id, INVALID_STREAM) is the one frame queued, and the exchange
\* table, the highest stream ids, the goaway flags and the transport are as
\* they were.
OnlyReset(R, id) ==
    /\ R.frames = <<Frame("RST_STREAM", id, INVALID_STREAM)>>
    /\ R.exchanges = exchanges
    /\ R.highest_created_stream_id = highest_created_stream_id
    /\ R.highest_accepted_stream_id = highest_accepted_stream_id
    /\ R.sent_goaway = sent_goaway /\ R.received_goaway = received_goaway
    /\ R.tcp_conn = "connected" /\ is_active(R)

NothingOpened(R) ==
    /\ R.highest_created_stream_id = highest_created_stream_id
    /\ R.exchanges = exchanges
    /\ R.frames = <<>>
    /\ \E k \in DOMAIN R.events :
          R.events[k][1] = None /\ R.events[k][2] = "error"
          /\ R.events[k][3] \in {"ExchangeStateError: pushed",
                                 "ExchangeStateError: goaway",
                                 "ExchangeStateError: sent"}

\* C9 (as amended): once a client session has received a GOAWAY,
\* request_start on a fresh exchange allocates no stream id, adds no entry to
\* the exchange table, queues no SYN_STREAM and gives the caller an
\* ExchangeStateError.
C9_NoLocalStreamAfterReceivedGoaway ==
    (is_client /\ received_goaway) =>
        \A done \in BOOLEAN : NothingOpened(req_start(Cur, None, done))

\* C9 as stated: the same once the session has sent or has received a GOAWAY
\* (request_start reaches the session while it is the client's session of the
\* origin).
C9_Original ==
    (is_client /\ registered /\ (sent_goaway \/ received_goaway)) =>
        \A done \in BOOLEAN : NothingOpened(req_start(Cur, None, done))

\* a connected client session with an open stream that has received a GOAWAY
\* and refuses a request_start
C9_Witness ==
    /\ is_client /\ registered /\ tcp_conn = "connected" /\ received_goaway
    /\ ActiveIds(Cur) # {}
    /\ Emitted(req_start(Cur, None, FALSE), None, "error", "ExchangeStateError: goaway")

\* R is the session after a SYN_STREAM that was not accepted: the exchange
\* table and highest_accepted_stream_id are as they were and neither
\* pushed_response nor response_start was emitted
NotAccepted(R) ==
    /\ R.exchanges = exchanges
    /\ R.highest_accepted_stream_id = highest_accepted_stream_id
    /\ \A k \in DOMAIN R.events :
          R.events[k][2] \notin {"pushed_response", "response_start"}

\* an exchange whose response is awaited or under way takes the frames that
\* carry it on: SYN_REPLY starts the response of a request stream, and DATA
\* with FLAG_FIN ends a started response with response_done
OpenExchangesProceed ==
    \A id \in DOMAIN exchanges :
        /\ (exchanges[id].res_state = "WAITING" /\ ~exchanges[id].pushed) =>
              LET R == frame_syn_reply(Received("SYN_REPLY"), id, FLAG_NONE, TRUE)
              IN  R.exchanges[id].res_state = "STARTED"
                  /\ Emitted(R, id, "response_start", "")
        /\ exchanges[id].res_state = "STARTED" =>
              LET R == frame_data(Received("DATA"), id, FLAG_FIN)
              IN  R.exchanges[id].res_state = "DONE"
                  /\ Emitted(R, id, "response_done", "")

\* C10 (as amended): once a client session has sent a GOAWAY, no SYN_STREAM
\* from the peer is accepted: no exchange is added to the table,
\* highest_accepted_stream_id does not change and neither pushed_response nor
\* response_start is delivered, while the exchanges that are open still take
\* their frames and run to completion.
C10_NoRemoteStreamAfterSentGoaway ==
    (is_client /\ tcp_conn = "connected" /\ sent_goaway) =>
        /\ \A m \in StreamIds, a \in AssocIds, in \in SynStreamInputs :
              NotAccepted(frame_syn_stream(Received("SYN_STREAM"), m, a, in[1], in[2]))
        /\ OpenExchangesProceed

\* C10 as stated: the same once the session has sent or has received a GOAWAY.
C10_Original ==
    (is_client /\ tcp_conn = "connected" /\ (sent_goaway \/ received_goaway)) =>
        /\ \A m \in StreamIds, a \in AssocIds, in \in SynStreamInputs :
              NotAccepted(frame_syn_stream(Received("SYN_STREAM"), m, a, in[1], in[2]))
        /\ OpenExchangesProceed

\* a connected client session that has sent a GOAWAY ignores a SYN_STREAM for
\* the new stream 2 associated to the open stream 1, whose response then ends
C10_Witness ==
    /\ is_client /\ tcp_conn = "connected" /\ sent_goaway
    /\ 1 \in DOMAIN exchanges /\ 2 \notin DOMAIN exchanges
    /\ exchanges[1].res_state = "STARTED"
    /\ highest_accepted_stream_id = 0
    /\ Emitted(frame_syn_stream(Received("SYN_STREAM"), 2, 1, FLAG_UNIDIRECTIONAL, TRUE),
               SESSION, "error", "ProtocolError")
    /\ frame_data(Received("DATA"), 1, FLAG_FIN).exchanges[1].res_state = "DONE"

\* R is the session after a frame for exchange id was refused with the
\* status: neither response_body nor response_headers was emitted, the
\* exchange got a ProtocolError on its error channel, both of its axes are
\* DONE and RST_STREAM(id, status) is the one frame queued
Refused(R, id, status) ==
    /\ \A k \in DOMAIN R.events :
          R.events[k][2] \notin {"response_body", "response_headers"}
    /\ Emitted(R, id, "error", "ProtocolError")
    /\ R.exchanges[id].req_state = "DONE" /\ R.exchanges[id].res_state = "DONE"
    /\ R.frames = <<Frame("RST_STREAM", id, status)>>

\* C11: a client session that receives a DATA or a HEADERS frame for an
\* exchange whose response state is DONE refuses it with the stream error
\* STREAM_ALREADY_CLOSED, and one that receives a DATA frame for an exchange
\* whose response state is WAITING refuses it with PROTOCOL_ERROR: no
\* response_body or response_headers event is emitted, the exchange gets an
\* error event, both of its axes become DONE and the matching RST_STREAM is
\* queued.
C11_FrameOnClosedOrUnstartedResponse ==
    (is_client /\ tcp_conn = "connected") =>
        \A id \in DOMAIN exchanges, flags \in {FLAG_NONE, FLAG_FIN} :
            /\ exchanges[id].res_state = "DONE" =>
                  /\ Refused(frame_data(Received("DATA"), id, flags),
                             id, STREAM_ALREADY_CLOSED)
                  /\ Refused(frame_headers(Received("HEADERS"), id, flags),
                             id, STREAM_ALREADY_CLOSED)
            /\ exchanges[id].res_state = "WAITING" =>
                  Refused(frame_data(Received("DATA"), id, flags), id, PROTOCOL_ERROR)

\* a client session with stream 1 whose response has ended while its request
\* is still open, and stream 3 whose response is awaited: DATA on either is
\* refused
C11_Witness ==
    /\ is_client /\ tcp_conn = "connected"
    /\ {1, 3} \subseteq DOMAIN exchanges
    /\ exchanges[1].res_state = "DONE" /\ exchanges[1].req_state = "STARTED"
    /\ exchanges[3].res_state = "WAITING"
    /\ Queued(frame_data(Received("DATA"), 1, FLAG_NONE),
              Frame("RST_STREAM", 1, STREAM_ALREADY_CLOSED))
    /\ Queued(frame_data(Received("DATA"), 3, FLAG_NONE),
              Frame("RST_STREAM", 3, PROTOCOL_ERROR))

\* the session S when the next entry point starts: the events and frames of
\* the entry point that ran are gone
Then(S) == [S EXCEPT !.events = <<>>, !.frames = <<>>, !.log = <<>>]

\* the state a direction is in after its first header-bearing frame
AfterHeaders(fin) == IF fin THEN "DONE" ELSE "STARTED"

\* R is the session after a DATA frame with the flags was delivered on the
\* started response of exchange id: a response_body event, then with FLAG_FIN
\* state DONE and one response_done event, and without it state STARTED and no
\* response_done event
BodyDelivered(R, id, flags) ==
    /\ Emitted(R, id, "response_body", "")
    /\ R.exchanges[id].res_state = AfterHeaders(flags = FLAG_FIN)
    /\ Cardinality({k \in DOMAIN R.events : R.events[k] = <<id, "response_done", "">>})
          = (IF flags = FLAG_FIN THEN 1 ELSE 0)

\* C12 as stated: the first header-bearing frame of a direction moves it from
\* WAITING to STARTED without FIN and to DONE with FIN, for request_start
\* (req_state), for a received SYN_REPLY (res_state) and for an accepted pushed
\* SYN_STREAM (res_state of the push exchange); the DATA frames that follow a
\* header frame without FIN are delivered as body events, and DATA with FIN
\* moves STARTED to DONE and fires the done event once.
C12_Original ==
    (is_client /\ tcp_conn = "connected") =>
        /\ \A done \in BOOLEAN :
              LET R == req_start(Cur, None, done)
              IN  \A n \in DOMAIN R.exchanges \ DOMAIN exchanges :
                      R.exchanges[n].req_state = AfterHeaders(done)
        /\ \A id \in DOMAIN exchanges, flags \in {FLAG_NONE, FLAG_FIN} :
              LET R == frame_syn_reply(Received("SYN_REPLY"), id, flags, TRUE)
              IN  /\ Emitted(R, id, "response_start", "") =>
                        R.exchanges[id].res_state = AfterHeaders(flags = FLAG_FIN)
                  /\ (Emitted(R, id, "response_start", "") /\ flags = FLAG_NONE) =>
                        \A f \in {FLAG_NONE, FLAG_FIN} :
                            BodyDelivered(frame_data(handle_frame(Then(R), "DATA"), id, f),
                                          id, f)
        /\ \A m \in StreamIds, a \in AssocIds,
              flags \in {FLAG_FIN, FLAG_UNIDIRECTIONAL} :
              LET R == frame_syn_stream(Received("SYN_STREAM"), m, a, flags, TRUE)
              IN  /\ Emitted(R, m, "response_start", "") =>
                        R.exchanges[m].res_state = AfterHeaders(flags = FLAG_FIN)
                  /\ (Emitted(R, m, "response_start", "") /\ flags # FLAG_FIN) =>
                        \A f \in {FLAG_NONE, FLAG_FIN} :
                            BodyDelivered(frame_data(handle_frame(Then(R), "DATA"), m, f),
                                          m, f)

\* C13 as stated: when a client session receives a SYN_STREAM with a valid new
\* stream id m whose associated stream id is not in the exchange table, or
\* whose associated exchange is response-DONE, no push exchange is created,
\* RST_STREAM(m, INVALID_STREAM) or RST_STREAM(m, REFUSED_STREAM) is queued and
\* no pushed_response event is delivered.
C13_Original ==
    (is_client /\ tcp_conn = "connected" /\ ~sent_goaway) =>
        \A m \in StreamIds, a \in AssocIds, in \in SynStreamInputs :
            (/\ valid_new_stream_id(Received("SYN_STREAM"), m).ok
             /\ (a \notin DOMAIN exchanges \/ exchanges[a].res_state = "DONE")) =>
                LET R == frame_syn_stream(Received("SYN_STREAM"), m, a, in[1], in[2])
                IN  /\ R.exchanges = exchanges
                    /\ \/ Queued(R, Frame("RST_STREAM", m, INVALID_STREAM))
                       \/ Queued(R, Frame("RST_STREAM", m, REFUSED_STREAM))
                    /\ \A k \in DOMAIN R.events : R.events[k][2] # "pushed_response"

\* the push exchanges of the table that are associated to exchange id
PushedOf(id) ==
    {p \in DOMAIN exchanges : exchanges[p].pushed /\ exchanges[p].stream_assoc_id = id}

\* C14 as stated: cancel() on exchange A makes A and every push exchange whose
\* associated stream id is A's DONE on both axes, delivers an RstStreamError
\* on the error channel of each such push exchange, queues RST_STREAM(A,
\* CANCEL) and leaves the exchanges that are not associated to A unchanged.
C14_Original ==
    (is_client /\ tcp_conn = "connected") =>
        \A A \in DOMAIN exchanges :
            LET R == cancel(Cur, A)
            IN  /\ \A i \in {A} \cup PushedOf(A) :
                      R.exchanges[i].req_state = "DONE" /\ R.exchanges[i].res_state = "DONE"
                /\ \A p \in PushedOf(A) : Emitted(R, p, "error", "RstStreamError")
                /\ Queued(R, Frame("RST_STREAM", A, CANCEL))
                /\ DOMAIN R.exchanges = DOMAIN exchanges
                /\ \A i \in DOMAIN exchanges \ ({A} \cup PushedOf(A)) :
                      R.exchanges[i] = exchanges[i]

\* C15: close() on a session that is not active is a no-op: no GOAWAY is
\* queued, no 'close' event is emitted, no exchange changes state and no
\* timer is armed (the transport, the goaway flags and the highest stream ids
\* stay as they were too); and a second close() right after a close() adds
\* nothing to the effects of the first, whatever the reasons given.
C15_CloseInactiveIsNoOp ==
    /\ ~is_active(Cur) =>
          \A reason \in {None, GOAWAY_OK, GOAWAY_PROTOCOL_ERROR} :
              LET R == close(Cur, reason)
              IN  /\ R.frames = <<>> /\ R.events = <<>>
                  /\ R.exchanges = exchanges
                  /\ R.idle_timeout_ev = idle_timeout_ev
                  /\ R.output_buffer = output_buffer
                  /\ R.tcp_conn = tcp_conn
                  /\ R.sent_goaway = sent_goaway /\ R.received_goaway = received_goaway
                  /\ R.highest_created_stream_id = highest_created_stream_id
                  /\ R.highest_accepted_stream_id = highest_accepted_stream_id
    /\ \A r1 \in {None, GOAWAY_OK}, r2 \in {None, GOAWAY_OK} :
          close(close(Cur, r1), r2) = close(Cur, r1)

\* a session that close() has closed, with an exchange in its table and the
\* idle timer armed again by a later goaway(): close() on it queues nothing,
\* emits nothing and leaves the timer as it is
C15_Witness ==
    /\ tcp_conn = "closed" /\ sent_goaway /\ DOMAIN exchanges # {}
    /\ idle_timeout_ev = "pending"
    /\ close(Cur, GOAWAY_OK).frames = <<>>
    /\ close(Cur, GOAWAY_OK).events = <<>>

\* the frames a sequence holds
FramesOf(s) == {s[i] : i \in DOMAIN s}

\* the frames that wait in the write queues of W
QueuedFrames(W) == UNION {FramesOf(W.write_queue[p]) : p \in PriorityRange}

\* C16: a tick of the output scheduler of a server connection takes exactly
\* one frame when any queue is non-empty and hands it to _output, which
\* writes it to the transport while the transport is connected; that frame is
\* the oldest frame of the lowest-numbered non-empty queue: no frame of a
\* lower-numbered priority waits, and no frame of its priority that was queued
\* before it waits; nothing else is written, and frames of equal priority
\* appear on the transport in the order in which they were queued.  (No
\* fairness: a frame is passed over as long as a lower-numbered queue is
\* non-empty.)
C16_PriorityScheduler ==
    /\ (~is_client /\ write_pending) =>
          LET R == write_frame_callback(CurW)
              taken == QueuedFrames(CurW) \ QueuedFrames(R)
              written == FramesOf(R.wire) \ FramesOf(wire)
          IN  /\ QueuedFrames(R) \subseteq QueuedFrames(CurW)
              /\ QueuedFrames(CurW) # {} => Cardinality(taken) = 1
              /\ Len(R.wire) = Len(wire) + (IF tcp_conn = "connected"
                                            THEN Cardinality(taken) ELSE 0)
              /\ written = (IF tcp_conn = "connected" THEN taken ELSE {})
              /\ \A f \in taken, g \in QueuedFrames(CurW) :
                    /\ f.priority <= g.priority
                    /\ f.priority = g.priority => f.seq <= g.seq
    /\ \A i \in DOMAIN wire, j \in DOMAIN wire :
          (i < j /\ wire[i].priority = wire[j].priority) => wire[i].seq < wire[j].seq

\* a tick is due on a connected server connection while a frame of priority 1
\* waits that was queued before a frame of priority 0 that is already written,
\* and one more frame of priority 0 waits: the tick writes that one, and the
\* older frame of priority 1 goes on waiting
C16_Witness ==
    /\ ~is_client /\ tcp_conn = "connected" /\ write_pending
    /\ Len(write_queue[0]) > 0 /\ Len(write_queue[1]) > 0
    /\ \E i \in DOMAIN wire :
          wire[i].priority = 0 /\ wire[i].seq > write_queue[1][1].seq
    /\ write_queue[0][1].seq > write_queue[1][1].seq
    /\ LET R == write_frame_callback(CurW)
       IN  /\ R.wire = Append(wire, write_queue[0][1])
           /\ R.write_queue[1] = write_queue[1]

\* C17 as stated: from the transport's pause(True) until its pause(False) the
\* scheduler schedules no tick and writes no frame, and a frame queued
\* meanwhile only joins its queue; the pause is passed as a 'pause' event to
\* every active exchange and to no inactive one; and after pause(False)
\* ticking restarts, so that the frames that wait are written.
C17_Original ==
    (~is_client /\ tcp_conn = "connected") =>
        /\ tcp_paused =>
              /\ write_pending => write_frame_callback(CurW).wire = wire
              /\ \A p \in SchedPriorities, type \in SchedTypes :
                    LET f == OutFrame(frame_count + 1, p, type)
                        R == server_queue_frame(CurW, p, f)
                    IN  /\ R.write_queue = [write_queue EXCEPT ![p] = Append(@, f)]
                        /\ R.write_pending = write_pending
                        /\ R.wire = wire
        /\ \A paused \in BOOLEAN :
              LET R == server_handle_pause(CurW, paused)
              IN  \A i \in DOMAIN exchanges :
                      Emitted(R, i, "pause", PauseDetail(paused))
                          <=> is_active_exchange(exchanges[i])
        /\ (tcp_paused /\ QueuedFrames(CurW) # {}) =>
              server_handle_pause(CurW, FALSE).write_pending

IsHeaderBearing(f) == f.type \in HeaderBearing

\* the header-bearing frames of a sequence of frames, in its order
Hdr(s) == SelectSeq(s, IsHeaderBearing)

IsPrefix(s, t) == Len(s) <= Len(t) /\ SubSeq(t, 1, Len(s)) = s

\* C18 (as amended): the header-bearing frames written to the transport are,
\* in the order written, the first frames that passed through the compressor
\* of the session.  A server connection holds its queued frames unserialized
\* and serializes each in the tick that sends it, so whatever the priorities
\* of the frames queued, what was compressed is what was written while the
\* transport is connected.  A client session serializes each frame when it is
\* queued and writes, or holds in _output_buffer until the transport is
\* connected, in that same order.
C18_CompressedInWriteOrder ==
    /\ IsPrefix(Hdr(wire), compressed)
    /\ ~is_client =>
          /\ FramesOf(compressed) \cap QueuedFrames(CurW) = {}
          /\ tcp_conn = "connected" => Hdr(wire) = compressed
          /\ write_pending =>
                LET R == write_frame_callback(CurW)
                IN  tcp_conn = "connected" => Hdr(R.wire) = R.compressed
    /\ is_client => compressed = Hdr(wire \o output_buffer)

\* C18 as stated: a frame that waits to be sent, in a write queue or in
\* _output_buffer, has not been serialized yet, and the header-bearing frames
\* are written in the order in which they passed through the compressor.
C18_Original ==
    /\ FramesOf(compressed) \cap (QueuedFrames(CurW) \cup FramesOf(output_buffer)) = {}
    /\ IsPrefix(Hdr(wire), compressed)

\* a server connection that wrote two header-bearing frames in the reverse of
\* the order in which they were queued, the later one having the
\* lower-numbered priority, while a third one waits unserialized
C18_Witness ==
    /\ ~is_client /\ tcp_conn = "connected"
    /\ Len(compressed) = 2 /\ compressed[1].seq > compressed[2].seq
    /\ Hdr(wire) = compressed
    /\ \E f \in QueuedFrames(CurW) : f.type \in HeaderBearing

\* the parity of the ping ids a session sends: odd for a client, even for a
\* server
OwnPingParity == IF is_client THEN 1 ELSE 0

\* the number of events <<target, name, detail>> in the events of R
Count(R, target, name, detail) ==
    Cardinality({k \in DOMAIN R.events : R.events[k] = <<target, name, detail>>})

\* C19: a session that receives a PING whose id has the parity of its own
\* ping ids (odd for a client, even for a server; the ids in its ping table
\* all have it) treats it as a reply: when a PingTimer is pending under that
\* id, the timer emits 'pong' once, is removed from the ping table, is no
\* longer active and has no timeout pending, no other timer changes, and no
\* PING frame is queued.  A PING of the other parity makes the session queue
\* exactly one PING frame with the same id, and changes no PingTimer and not
\* the ping table.
C19_PingReplyOrEcho ==
    /\ \A id \in DOMAIN pings : id % 2 = OwnPingParity
    /\ \A id \in PingIds :
          LET R == frame_ping(handle_frame(CurP, "PING"), id)
          IN  IF id % 2 = OwnPingParity
              THEN /\ R.frames = <<>>
                   /\ id \in DOMAIN pings =>
                         /\ Count(R, PingTimerTarget(pings[id]), "pong", "") = 1
                         /\ \A k \in DOMAIN R.events :
                               R.events[k][2] \in {"pong", "frame"}
                         /\ DOMAIN R.pings = DOMAIN pings \ {id}
                         /\ \A i \in DOMAIN R.pings : R.pings[i] = pings[i]
                         /\ ~R.ping_timers[pings[id]].is_active
                         /\ ~R.ping_timers[pings[id]].ping_timeout_ev
                         /\ \A t \in Timers \ {pings[id]} :
                               R.ping_timers[t] = ping_timers[t]
              ELSE /\ R.frames = <<Frame("PING", id, None)>>
                   /\ R.ping_timers = ping_timers
                   /\ R.pings = pings
                   /\ \A k \in DOMAIN R.events : R.events[k][2] = "frame"

\* a client session with the pings 1 and 3 pending on two timers receives the
\* reply to ping 1, which completes that timer and leaves ping 3 pending, and
\* a PING with id 2 from the peer, which it echoes
C19_Witness ==
    /\ is_client /\ {1, 3} \subseteq DOMAIN pings /\ pings[1] # pings[3]
    /\ LET R == frame_ping(handle_frame(CurP, "PING"), 1)
       IN  /\ Emitted(R, PingTimerTarget(pings[1]), "pong", "")
           /\ DOMAIN R.pings = DOMAIN pings \ {1}
    /\ Queued(frame_ping(handle_frame(CurP, "PING"), 2), Frame("PING", 2, None))

\* the idle timeout of R has just been started: it is pending with the whole
\* idle period ahead
Restarted(R) == R.idle_timeout_ev = "pending" /\ R.idle_age = 0

\* C20: on a session with an idle timeout configured, every frame received
\* that leaves the session connected and every frame queued leaves the idle
\* timeout pending with a full period ahead; a pending idle timeout is never
\* older than the time since the last frame was received or queued, so when
\* it is due no frame was received or queued for a whole idle period; and
\* when it fires on an active session, IdleTimeoutError is emitted, every
\* active exchange is closed, GOAWAY with reason OK is queued and written,
\* the session is closed and no idle timeout is left.
C20_IdleTimeoutRestartsAndCloses ==
    /\ (idle_timeout /\ tcp_conn = "connected") =>
          /\ \A id \in StreamIds, flags \in {FLAG_NONE, FLAG_FIN} :
                /\ LET R == frame_syn_reply(handle_frame(Cur, "SYN_REPLY"), id, flags, TRUE)
                   IN  R.tcp_conn = "connected" => Restarted(R)
                /\ LET R == frame_data(handle_frame(Cur, "DATA"), id, flags)
                   IN  R.tcp_conn = "connected" => Restarted(R)
          /\ LET R == frame_goaway(handle_frame(Cur, "GOAWAY"))
             IN  R.tcp_conn = "connected" => Restarted(R)
    /\ (idle_timeout /\ CanQueue) =>
          /\ \A done \in BOOLEAN :
                LET R == req_start(Cur, None, done)
                IN  (ensure_can_init(Cur, None) = "None" /\ R.frames # <<>>) => Restarted(R)
          /\ \A id \in DOMAIN exchanges :
                LET R == req_body(Cur, id)
                IN  R.frames # <<>> => Restarted(R)
          /\ \A reason \in {GOAWAY_OK, GOAWAY_PROTOCOL_ERROR} : Restarted(goaway(Cur, reason))
    /\ idle_timeout_ev = "pending" => idle_age <= quiet
    /\ IdleTimerDue => quiet = IdlePeriod
    /\ (IdleTimerDue /\ is_active(Cur)) =>
          LET R == handle_error([Cur EXCEPT !.idle_timeout_ev = "fired"],
                                "IdleTimeoutError", GOAWAY_OK, None)
          IN  /\ SessionFatal(R, "IdleTimeoutError", GOAWAY_OK)
              /\ R.output_buffer = <<>>
              /\ R.idle_timeout_ev = "None"

\* a connected client session with an active exchange whose idle timeout is
\* due after a whole idle period without a frame, which a received SYN_REPLY
\* would have restarted and whose firing queues GOAWAY(OK) and closes the
\* session
C20_Witness ==
    /\ is_client /\ tcp_conn = "connected" /\ ActiveIds(Cur) # {}
    /\ IdleTimerDue /\ quiet = IdlePeriod
    /\ \E id \in ActiveIds(Cur) :
          Restarted(frame_syn_reply(handle_frame(Cur, "SYN_REPLY"), id, FLAG_NONE, TRUE))
    /\ LET R == handle_error([Cur EXCEPT !.idle_timeout_ev = "fired"],
                             "IdleTimeoutError", GOAWAY_OK, None)
       IN  /\ Queued(R, Frame("GOAWAY", 0, GOAWAY_OK))
           /\ R.tcp_conn = "closed"

\* C21: the frame codec does not depend on how the transport chunks the
\* bytes: whatever chunks the bytes delivered so far arrived in, the parser
\* has dispatched the frames, reported the errors and reached the state that
\* one call of _handle_input with all of them gives.
C21_ChunkingIndependent == parser = handle_input(NewParser, delivered)

\* one frame has been dispatched and a chunk has ended inside the body of
\* the next frame, which is dispatched once the rest arrives
C21_Witness ==
    /\ parser.input_state = "READING_FRAME_DATA"
    /\ parser.input_buffer # <<>>
    /\ Len(parser.frames) = 1
    /\ Len(handle_input(parser, pending).frames) = 2

\* C22: every frame that was serialized is parsed back to the same frame:
\* once all bytes of well-formed frames are delivered, the frames dispatched
\* are the frames serialized, field by field.
C22_Original ==
    (pending = <<>> /\ peer.writes = Len(peer.frames)) => parser.frames = peer.frames

\* the parser of a session that has received nothing, after the bytes of a
\* frame of the type for the stream id whose header block is the given one
AfterFrame(type, id, block) == handle_input(NewParser, header_frame(type, id, block))

\* C23: a SYN_STREAM, SYN_REPLY or HEADERS frame whose decoded header block
\* has a count that differs from the pairs present, a duplicate name, an
\* upper-case name or a value with a leading, trailing or doubled NUL is
\* refused with a stream-scoped HeaderError: the frame is not dispatched,
\* RST_STREAM(stream id, PROTOCOL_ERROR) is queued, the exchange with that id
\* is DONE and the session stays connected.
C23_Original ==
    tcp_conn = "connected" =>
        \A type \in HeaderTypes, id \in 1 .. MaxStreamId, b \in BadBlocks :
            LET P == AfterFrame(type, id, compress(0, b).out)
                R == report_errors(Cur, P.errors)
            IN  /\ P.frames = <<>>
                /\ P.errors = << <<"HeaderError", PROTOCOL_ERROR, id, FALSE>> >>
                /\ Queued(R, Frame("RST_STREAM", id, PROTOCOL_ERROR))
                /\ id \in DOMAIN R.exchanges =>
                       /\ R.exchanges[id].req_state = "DONE"
                       /\ R.exchanges[id].res_state = "DONE"
                /\ R.tcp_conn = "connected"

\* C24: on a connected session a SYN_STREAM, SYN_REPLY or HEADERS frame whose
\* header block the decompressor fails on is not dispatched and the error is
\* session-scoped whatever the stream id: ParsingError is emitted on the
\* session and on every active exchange, no exchange stays active,
\* GOAWAY(max(highest_accepted_stream_id, 0), INTERNAL_ERROR) is queued, the
\* transport is closed and 'close' is emitted.
C24_DecompressFailureIsSessionFatal ==
    tcp_conn = "connected" =>
        \A type \in HeaderTypes, id \in 1 .. MaxStreamId :
            LET P == AfterFrame(type, id, Undecodable(0))
                R == report_errors(Cur, P.errors)
            IN  /\ P.frames = <<>>
                /\ P.errors = << <<"ParsingError", GOAWAY_INTERNAL_ERROR, None, TRUE>> >>
                /\ SessionFatal(R, "ParsingError", GOAWAY_INTERNAL_ERROR)

\* a connected session with two active exchanges receives a SYN_REPLY for
\* the first of them whose header block cannot be decompressed: both
\* exchanges are closed with the session
C24_Witness ==
    /\ tcp_conn = "connected"
    /\ Cardinality(ActiveIds(Cur)) >= 2
    /\ LET id == CHOOSE i \in ActiveIds(Cur) : TRUE
           R == report_errors(Cur, AfterFrame(FrameTypes_SYN_REPLY, id, Undecodable(0)).errors)
       IN  /\ ActiveIds(R) = {}
           /\ R.tcp_conn = "closed"
           /\ \A i \in ActiveIds(Cur) : Emitted(R, i, "error", "ParsingError")

\* the error details that are an ExchangeStateError of _ensure_can_init or
\* _ensure_can_send
ExchangeStateErrors ==
    {"ExchangeStateError: pushed", "ExchangeStateError: goaway",
     "ExchangeStateError: sent", "ExchangeStateError: not sent",
     "ExchangeStateError: done"}

\* R is the current session with events emitted and nothing else changed: no
\* frame queued, no stream id allocated, every exchange and field as before
SameState(R) == [R EXCEPT !.events = <<>>, !.log = <<>>] = Cur

\* the entry point did nothing but emit one ExchangeStateError on exchange x
OnlyStateError(R, x) ==
    /\ SameState(R)
    /\ Len(R.events) = 1
    /\ R.events[1][1] = x /\ R.events[1][2] = "error"
    /\ R.events[1][3] \in ExchangeStateErrors

\* the session after request_headers, request_body or request_done on x
Requested(op, x) ==
    IF op = "request_headers" THEN request_headers(Cur, x)
    ELSE IF op = "request_body" THEN request_body(Cur, x)
    ELSE request_done(Cur, x)

RequestOps == {"request_headers", "request_body", "request_done"}

\* C25: on a client session, request_headers, request_body and request_done
\* on an exchange before its request_start, or after its request is done, a
\* second request_start, and every request call on a pushed exchange emit an
\* ExchangeStateError on the exchange and change nothing: no frame is queued,
\* no stream id is allocated, the exchanges and the table are as before.
C25_Original ==
    is_client =>
        /\ \A op \in RequestOps : OnlyStateError(Requested(op, None), None)
        /\ \A id \in DOMAIN exchanges :
              /\ \A done \in BOOLEAN : OnlyStateError(req_start(Cur, id, done), id)
              /\ (exchanges[id].pushed \/ exchanges[id].req_state = "DONE") =>
                     \A op \in RequestOps : OnlyStateError(Requested(op, id), id)

\* C26: on a client session every public operation on an exchange that has
\* been closed (both states DONE) emits an error on the exchange, queues no
\* frame and changes no exchange or session state.
C26_Original ==
    is_client =>
        \A id \in DOMAIN exchanges : ~is_active_exchange(exchanges[id]) =>
            /\ \A done \in BOOLEAN : OnlyStateError(req_start(Cur, id, done), id)
            /\ \A op \in RequestOps : OnlyStateError(Requested(op, id), id)
            /\ LET R == exchange_cancel(Cur, id)
               IN  SameState(R) /\ \E e \in ExchangeStateErrors : Emitted(R, id, "error", e)

\* C27: opening a local stream fails if and only if the incremented id is
\* greater than 2^31 - 1.
C27_Original ==
    (next_created_stream_id(Cur).id = None) <=> (highest_created_stream_id + 2 > STREAM_MASK)

\* no frame waits in a write queue
QueuesEmpty == \A p \in PriorityRange : write_queue[p] = <<>>

\* the places of the write queues and of the transport's output that hold
\* the n-th frame handed to _queue_frame
PlacesOf(n) ==
    {<<p, i>> : p \in PriorityRange, i \in 1 .. MaxFrames + 1} \cap
        {x \in PriorityRange \X (1 .. MaxFrames + 1) :
            x[2] <= Len(write_queue[x[1]]) /\ write_queue[x[1]][x[2]].seq = n}

WrittenAt(n) == {i \in DOMAIN wire : wire[i].seq = n}

\* a tick is scheduled whenever a frame waits and the output is not paused
TickPending == (~is_client /\ ~QueuesEmpty /\ ~output_paused) => write_pending

\* while the transport is connected each frame handed to _queue_frame is in
\* one place: it waits in one queue or has been written once
OnceOnly ==
    (~is_client /\ tcp_conn = "connected") =>
        \A n \in 1 .. frame_count :
            Cardinality(PlacesOf(n)) + Cardinality(WrittenAt(n)) = 1

\* from some point on the output is not paused and the transport is connected
Steady == ~is_client /\ ~output_paused /\ tcp_conn = "connected"

\* C29: on a server connection a tick is pending whenever a frame waits in a
\* queue and the output is not paused; while the transport is connected every
\* frame queued waits in one queue or has been written exactly once; and if
\* from some point on the output stays unpaused and the transport connected
\* (no frame is queued for ever: the model queues MaxFrames), then with every
\* scheduled tick run all queues become empty and stay empty, so every frame
\* has been written.
C29_SchedulerLiveness ==
    /\ []TickPending
    /\ []OnceOnly
    /\ (<>[]Steady => <>[]QueuesEmpty)

\* one frame has been written and two more wait with a tick pending, the
\* output not paused and the transport connected
C29_Witness ==
    /\ Steady /\ write_pending
    /\ Len(wire) >= 1
    /\ Cardinality(QueuedFrames(CurW)) >= 2

\* C30: a received PING whose id has the parity of the session's own pings
\* and is not pending in the ping table only makes the session emit a
\* PingError 'error' event (after the 'frame' event of every frame): no frame
\* is queued, the transport, the goaway flags, the exchanges, the ping table
\* and the timers are as before.
C30_UnmatchedPingIsWarning ==
    \A id \in PingIds :
        (id % 2 = highest_ping_id % 2 /\ id \notin DOMAIN pings) =>
            LET R == frame_ping(handle_frame(CurP, "PING"), id)
            IN  /\ R.events = << <<SESSION, "frame", "PING">>,
                                 <<SESSION, "error", "PingError">> >>
                /\ R.frames = <<>>
                /\ R.tcp_conn = tcp_conn /\ is_active(R)
                /\ R.sent_goaway = sent_goaway /\ R.received_goaway = received_goaway
                /\ R.exchanges = exchanges
                /\ R.pings = pings
                /\ R.ping_timers = ping_timers
                /\ R.highest_ping_id = highest_ping_id

\* a ping of the session has been answered or given up while another is
\* still pending, and a PING with the id of the first arrives: the error is
\* emitted and the pending ping stays in the table
C30_Witness ==
    \E id \in PingIds :
        /\ id % 2 = highest_ping_id % 2 /\ id <= highest_ping_id
        /\ id \notin DOMAIN pings /\ DOMAIN pings # {}
        /\ LET R == frame_ping(handle_frame(CurP, "PING"), id)
           IN  Emitted(R, SESSION, "error", "PingError") /\ R.pings = pings

\* the exchanges R has and the current session has not
CreatedIn(R) == DOMAIN R.exchanges \ DOMAIN exchanges

\* every pushed exchange R created has req_state DONE and the response side
\* the handler left it with: WAITING when _init_pushed_exchg returns
PushedCreatedDone(R) ==
    \A id \in CreatedIn(R) :
        R.exchanges[id].pushed => R.exchanges[id].req_state = "DONE"

EntriesOf(P, t) == {id \in DOMAIN P.pings : P.pings[id] = t}

\* the events 'pong' and 'timeout' among the events of R
PongOrTimeout(R) ==
    {k \in DOMAIN R.events : R.events[k][2] \in {"pong", "timeout"}}

\* PingTimer t is in the table exactly while it is active, under one id, the
\* id it holds, and its timeout callback is pending only while it is active;
\* the ids of the table have the session's parity and were handed out
PingTableMatches ==
    /\ \A t \in Timers :
           /\ Cardinality(EntriesOf(CurP, t)) <= 1
           /\ ping_timers[t].is_active <=> EntriesOf(CurP, t) # {}
           /\ ping_timers[t].is_active =>
                  EntriesOf(CurP, t) = {ping_timers[t].ping_id}
           /\ ping_timers[t].ping_timeout_ev => ping_timers[t].is_active
    /\ \A id \in DOMAIN pings :
           id <= highest_ping_id /\ id % 2 = highest_ping_id % 2

\* _send_ping enters the timer under the next id of the session, in place of
\* its earlier entry, and emits neither 'pong' nor 'timeout'
SendEnters ==
    \A t \in Timers :
        LET R == send_ping(CurP, t)
            id == highest_ping_id + 2
        IN  /\ R.highest_ping_id = id
            /\ \A old \in DOMAIN pings : old < id
            /\ EntriesOf(R, t) = {id}
            /\ \A u \in Timers \ {t} : EntriesOf(R, u) = EntriesOf(CurP, u)
            /\ R.ping_timers[t].is_active /\ R.ping_timers[t].ping_timeout_ev
            /\ R.frames = <<Frame("PING", id, None)>>
            /\ PongOrTimeout(R) = {}

\* the three ways a pending ping ends, as arguments (success, cancel) of
\* _notify_ping: the reply, PingTimer.cancel, the timeout callback
PingEnds == {<<TRUE, FALSE>>, <<TRUE, TRUE>>, <<FALSE, FALSE>>}

\* the event the timer gets when its ping ends in way e
EndEvents(t, e) ==
    IF e[2] THEN <<>>
    ELSE IF e[1] THEN << <<PingTimerTarget(t), "pong", "">> >>
    ELSE << <<PingTimerTarget(t), "timeout", "">> >>

\* the first end of a pending ping removes it, cancels the timeout callback
\* and emits the one event of that end; a later end of the same ping emits
\* neither 'pong' nor 'timeout' and leaves the table as it is
FirstEndRemoves ==
    \A id \in DOMAIN pings, e \in PingEnds :
        LET t == pings[id]
            R == notify_ping(CurP, id, e[1], e[2])
        IN  /\ R.events = EndEvents(t, e)
            /\ DOMAIN R.pings = DOMAIN pings \ {id}
            /\ ~R.ping_timers[t].is_active /\ ~R.ping_timers[t].ping_timeout_ev
            /\ \A f \in PingEnds :
                   LET Q == notify_ping([R EXCEPT !.events = <<>>], id, f[1], f[2])
                   IN  PongOrTimeout(Q) = {} /\ Q.pings = R.pings

\* C31: a PingTimer is in the ping table exactly while it is active; it is
\* entered by _send_ping under a fresh, strictly larger id of the session's
\* parity, in place of its earlier entry; the first of reply, cancel() and
\* timeout removes it, cancels its timeout callback and emits the one event
\* of that end (none for cancel), and nothing is emitted for that ping later;
\* in every step the ids that enter the table are above every id handed out
\* before.
C31_PingTableLifecycle ==
    /\ [](PingTableMatches /\ SendEnters /\ FirstEndRemoves)
    /\ [][\A id \in DOMAIN pings' \ DOMAIN pings : id > highest_ping_id]_vars

\* timer 1 pings again while its first ping is pending and another timer's
\* ping is pending too: its first entry is replaced
C31_Witness ==
    \E t \in Timers, u \in Timers :
        /\ t # u
        /\ ping_timers[t].is_active /\ ping_timers[u].is_active
        /\ ping_timers[t].ping_id < ping_timers[u].ping_id
        /\ EntriesOf(send_ping(CurP, t), t) = {highest_ping_id + 2}
        /\ DOMAIN send_ping(CurP, t).pings
               = {ping_timers[u].ping_id, highest_ping_id + 2}

\* an 'error' event on one of the targets is in the log of R before place k
ErrorLoggedBefore(R, k, targets) ==
    \E j \in 1 .. k - 1 :
        R.log[j][1] = "event" /\ R.log[j][3] = "error" /\ R.log[j][2] \in targets

\* in the entry point that left R, every RST_STREAM queued and every exchange
\* forced to DONE comes after an 'error' event on that exchange or on the
\* session, and every GOAWAY queued after an 'error' event on the session
ErrorFirst(R) ==
    \A k \in DOMAIN R.log :
        /\ (R.log[k][1] = "frame" /\ R.log[k][3] = "RST_STREAM") =>
               ErrorLoggedBefore(R, k, {SESSION, R.log[k][2]})
        /\ (R.log[k][1] = "frame" /\ R.log[k][3] = "GOAWAY") =>
               ErrorLoggedBefore(R, k, {SESSION})
        /\ R.log[k][1] = "closed" =>
               ErrorLoggedBefore(R, k, {SESSION, R.log[k][2]})

\* the frames a client receives in violation of the protocol are among these:
\* every DATA, SYN_STREAM, SYN_REPLY and HEADERS frame
ErrorFirstOnStreamFrames ==
    /\ \A id \in StreamIds, flags \in {FLAG_NONE, FLAG_FIN} :
           /\ ErrorFirst(frame_data(Received("DATA"), id, flags))
           /\ ErrorFirst(frame_headers(Received("HEADERS"), id, flags))
           /\ \A hdr_ok \in BOOLEAN :
                  ErrorFirst(frame_syn_reply(Received("SYN_REPLY"), id, flags, hdr_ok))
    /\ \A id \in StreamIds, a \in AssocIds, in \in SynStreamInputs :
           ErrorFirst(frame_syn_stream(Received("SYN_STREAM"), id, a, in[1], in[2]))

\* C32: in the handling of every received frame, the 'error' event (on the
\* session, or on the exchange of a stream error) is emitted before the
\* RST_STREAM or GOAWAY that answers it is queued and before the exchange is
\* forced to DONE; the frames are DATA, SYN_STREAM, SYN_REPLY, HEADERS and
\* RST_STREAM (with a status the endpoint knows or not).
C32_Original ==
    is_client =>
        /\ ErrorFirstOnStreamFrames
        /\ \A id \in StreamIds, status_known \in BOOLEAN :
               ErrorFirst(frame_rst_stream(Received("RST_STREAM"), id, status_known))

\* n bytes of padding
Padding(n) == [i \in 1 .. n |-> 0]

\* the least body length of a control frame that is over the accepted size
OverLen == max_control_frame_size - 8 + 1

\* the control frame types without a header block
PlainControlTypes ==
    {FrameTypes_RST_STREAM, FrameTypes_SETTINGS, FrameTypes_PING, FrameTypes_GOAWAY,
     FrameTypes_WINDOW_UPDATE, FrameTypes_CREDENTIAL}

\* what a parser fresh from __init__ makes of one oversized control frame of
\* a header-bearing type, read whole
OverHeaderFrame ==
    [type \in HeaderTypes |-> [id \in StreamIds |->
        handle_input(NewParser,
            serialize_control_frame(type, FLAG_NONE,
                                    pack_I_masked(id) \o Padding(OverLen - 4)))]]

\* ... of one oversized control frame of another type
OverPlainFrame ==
    [type \in PlainControlTypes |->
        handle_input(NewParser,
                     serialize_control_frame(type, FLAG_NONE,
                                             pack_I(1) \o Padding(OverLen - 4)))]

\* ... of a PING frame of exactly the accepted size, and of a DATA frame
\* whose body alone is over it
FullSizeFrame ==
    handle_input(NewParser,
                 serialize_control_frame(FrameTypes_PING, FLAG_NONE,
                                         pack_I(1) \o Padding(OverLen - 5)))
LargeDataFrame ==
    handle_input(NewParser,
                 frame_serialize(0, DataFrame(FLAG_NONE, 1, Padding(OverLen)), <<>>).out)

\* the session closed itself with GOAWAY(INTERNAL_ERROR) as its last frame
ClosedInternalError(R) ==
    /\ R.tcp_conn = "closed"
    /\ R.frames # <<>>
    /\ R.frames[Len(R.frames)].type = "GOAWAY"
    /\ R.frames[Len(R.frames)].code = GOAWAY_INTERNAL_ERROR
    /\ Emitted(R, SESSION, "close", "")

\* C33 (as stated): an oversized SYN_STREAM, SYN_REPLY or HEADERS frame whose
\* stream id can be read is rejected as an error of that stream and the
\* session stays active.
C33_Original ==
    tcp_conn = "connected" =>
        \A type \in HeaderTypes, id \in StreamIds :
            report_errors(Cur, OverHeaderFrame[type][id].errors).tcp_conn = "connected"

\* C33 (amended): a control frame over the accepted size is never dispatched.
\* For SYN_STREAM, SYN_REPLY and HEADERS the parser reports FRAME_TOO_LARGE
\* for the stream id read from the body and then a session error without an
\* error object: the exchange of that id, when there is one, gets the 'error'
\* event and RST_STREAM(FRAME_TOO_LARGE), and in every case the session is
\* closed with GOAWAY(INTERNAL_ERROR).  For the other control types the error
\* is a session error: 'error' on the session, GOAWAY(INTERNAL_ERROR), close.
\* A control frame of exactly the accepted size and a DATA frame of any size
\* are dispatched.
C33_OversizedIsSessionFatal ==
    /\ \A type \in HeaderTypes, id \in StreamIds :
           LET P == OverHeaderFrame[type][id]
               R == report_errors(Cur, P.errors)
           IN  /\ P.frames = <<>>
               /\ P.errors = << <<"FrameSizeError", FRAME_TOO_LARGE, id, FALSE>>,
                                <<"None", GOAWAY_INTERNAL_ERROR, None, TRUE>> >>
               /\ tcp_conn = "connected" =>
                      /\ ClosedInternalError(R)
                      /\ ~Emitted(R, SESSION, "error", "FrameSizeError")
                      /\ IF id \in DOMAIN exchanges
                         THEN /\ R.events[1] = <<id, "error", "FrameSizeError">>
                              /\ R.frames[1] = Frame("RST_STREAM", id, FRAME_TOO_LARGE)
                              /\ Len(R.frames) = 2
                         ELSE /\ \A k \in DOMAIN R.events : R.events[k][2] # "error"
                              /\ Len(R.frames) = 1
    /\ \A type \in PlainControlTypes :
           LET P == OverPlainFrame[type]
               R == report_errors(Cur, P.errors)
           IN  /\ P.frames = <<>>
               /\ P.errors = << <<"FrameSizeError", GOAWAY_INTERNAL_ERROR, None, TRUE>> >>
               /\ tcp_conn = "connected" =>
                      /\ ClosedInternalError(R)
                      /\ R.events[1] = <<SESSION, "error", "FrameSizeError">>
                      /\ Len(R.frames) = 1
    /\ FullSizeFrame.errors = <<>> /\ FullSizeFrame.frames = <<PingFrame(1)>>
    /\ LargeDataFrame.errors = <<>>
    /\ LargeDataFrame.frames = <<DataFrame(FLAG_NONE, 1, Padding(OverLen))>>

\* a connected client with the open stream 1 receives an oversized SYN_REPLY
\* for it: the exchange is reset and the session closed
C33_Witness ==
    /\ is_client /\ tcp_conn = "connected"
    /\ 1 \in DOMAIN exchanges /\ exchanges[1].res_state = "WAITING"
    /\ exchanges[1].req_state = "STARTED"
    /\ LET R == report_errors(Cur, OverHeaderFrame[FrameTypes_SYN_REPLY][1].errors)
       IN  /\ R.frames[1] = Frame("RST_STREAM", 1, FRAME_TOO_LARGE)
           /\ R.exchanges[1].res_state = "DONE"
           /\ ClosedInternalError(R)

\* the frames R queued for stream id
FramesFor(R, id) ==
    {k \in DOMAIN R.frames :
        R.frames[k].stream_id = id /\ R.frames[k].type \notin {"GOAWAY", "PING"}}

\* the session after a received RST_STREAM for id has been handled, as the
\* next entry point finds it
AfterRstStream(id, status_known) ==
    Then(frame_rst_stream(Received("RST_STREAM"), id, status_known))

\* what the application may call on the handle and what the peer may still
\* send for the stream, run on session S
LaterOn(S, id) ==
    {exchange_cancel(S, id), request_headers(S, id), request_body(S, id),
     request_done(S, id), req_start(S, id, FALSE)}
    \cup {frame_data(handle_frame(S, "DATA"), id, f) : f \in {FLAG_NONE, FLAG_FIN}}
    \cup {frame_headers(handle_frame(S, "HEADERS"), id, f) : f \in {FLAG_NONE, FLAG_FIN}}
    \cup {frame_syn_reply(handle_frame(S, "SYN_REPLY"), id, FLAG_NONE, TRUE),
          frame_rst_stream(handle_frame(S, "RST_STREAM"), id, TRUE)}

\* C34: after a RST_STREAM was received for a stream of a connected client,
\* the exchange is closed (both states DONE, RstStreamError emitted on it) and
\* whatever the application calls on the handle or the peer sends for the id
\* next, no frame is queued for that stream id.
C34_Original ==
    (is_client /\ tcp_conn = "connected") =>
        \A id \in DOMAIN exchanges, status_known \in BOOLEAN :
            /\ LET R == frame_rst_stream(Received("RST_STREAM"), id, status_known)
               IN  /\ R.exchanges[id].req_state = "DONE"
                   /\ R.exchanges[id].res_state = "DONE"
                   /\ Emitted(R, id, "error", "RstStreamError")
                   /\ FramesFor(R, id) = {}
            /\ \A Q \in LaterOn(AfterRstStream(id, status_known), id) :
                   FramesFor(Q, id) = {}

\* C35: no read-timeout callback is pending for an exchange whose res_state
\* is DONE (so none fires on it), and no idle-timeout callback is pending
\* once the session has been closed.
C35_Original ==
    /\ \A id \in DOMAIN exchanges :
           exchanges[id].res_state = "DONE" => ~exchanges[id].read_timeout_ev
    /\ tcp_conn = "closed" => idle_timeout_ev # "pending"

\* the place of a state in the order WAITING, STARTED, DONE
StateRank(s) == IF s = "WAITING" THEN 0 ELSE IF s = "STARTED" THEN 1 ELSE 2

GoawaysQueued(R) == Cardinality({k \in DOMAIN R.frames : R.frames[k].type = "GOAWAY"})
ClosesEmitted(R) ==
    Cardinality({k \in DOMAIN R.events : R.events[k] = <<SESSION, "close", "">>})

\* the entry points that end or drain session S: goaway(), close(), a session
\* error of the parser, the idle timeout and the close of the transport
EndingOps(S) ==
    {goaway(S, r) : r \in {None, GOAWAY_OK}}
    \cup {close(S, r) : r \in {None, GOAWAY_OK}}
    \cup {handle_error(S, "ParsingError", GOAWAY_PROTOCOL_ERROR, None),
          handle_error(S, "IdleTimeoutError", GOAWAY_OK, None),
          handle_error(S, "ConnectionClosedError", None, None)}

\* C37: whatever two of goaway(), close(), a session-fatal error, the idle
\* timeout and the remote close run one after the other on a connected
\* session, at most one GOAWAY frame is queued and 'close' is emitted at most
\* once.
C37_Original ==
    tcp_conn = "connected" =>
        \A R \in EndingOps(Cur) : \A Q \in EndingOps(R) :
            GoawaysQueued(Q) <= 1 /\ ClosesEmitted(Q) <= 1

(* ---------------- input after a session-fatal error ---------------- *)

\* the session after the n-th _handle_error call of the parser P has run
\* on the session S
AfterError(S, P, n) ==
    handle_error(S, P.errors[n][1], P.errors[n][2], P.errors[n][3])

\* the n-th _handle_error call of the parser P is session-scoped and closes
\* the bound session
ClosesSession(P, n) ==
    /\ P.errors[n][3] = None
    /\ Cur.tcp_conn = "connected"
    /\ AfterError(Cur, P, n).tcp_conn # "connected"

\* the calls the parser makes while it reads the bytes the transport holds
\* in one chunk
ChunkCalls ==
    LET P == handle_input(parser, pending)
    IN  [P |-> P, new |-> Len(parser.calls) + 1 .. Len(P.calls)]

\* C38 as stated: once a session-scoped error found in a frame has closed
\* the session, the bytes that follow in the same chunk give no frame to
\* _handle_frame, and no event is emitted for them.
C38_Original ==
    LET P == ChunkCalls.P
    IN  \A i, j \in ChunkCalls.new :
            (/\ i < j
             /\ P.calls[i][1] = "error"
             /\ ClosesSession(P, P.calls[i][2]))
            => /\ P.calls[j][1] # "frame"

(* ---------------- the decompression context ---------------- *)

\* every byte the peer wrote has been parsed as whole frames
AllParsed == pending = <<>> /\ parser.input_buffer = <<>>

\* C39 as stated: while the errors the parser reported leave the session
\* active, every header block the peer compressed has passed through the
\* decompressor, so that the two contexts are in step.
C39_Original ==
    (AllParsed /\ is_active(report_errors(Cur, parser.errors)))
    => parser.decompress = peer.compress

(* ---------------- the GOAWAY of a closing server connection ---------------- *)

\* the connection after the event loop has run every write callback that is
\* scheduled, one tick after the other
RECURSIVE Drained(_)
Drained(W) == IF W.write_pending THEN Drained(write_frame_callback(W)) ELSE W

\* a GOAWAY frame is among the frames written to the transport
GoawayWritten(W) == \E i \in DOMAIN W.wire : W.wire[i].type = "GOAWAY"

\* a GOAWAY frame waits in one of the write queues
GoawayWaiting(W) ==
    \E p \in PriorityRange : \E i \in DOMAIN W.write_queue[p] :
        W.write_queue[p][i].type = "GOAWAY"

\* C40 as stated: when a connection that sends through the priority queues is
\* closed with a reason, the GOAWAY frame that close() queues is written to
\* the transport: it is on the wire once close() has returned and the
\* scheduled write callbacks have run, neither waiting in a queue nor dropped.
C40_Original ==
    (~is_client /\ tcp_conn = "connected")
    => LET R == Drained(server_close(CurW, GOAWAY_OK, frame_count + 1))
       IN  GoawayWritten(R) /\ ~GoawayWaiting(R)

====
